---- MODULE Spec2Model ----
(***************************************************************************)
(* PunchTracker: the punch detector/classifier (utils/punch_counter.py)    *)
(* and the combo matcher (utils/combo_detector.py) as state machines.      *)
(*                                                                         *)
(* Conventions                                                             *)
(*   - time is an integer number of microseconds (time.time() is a float   *)
(*     number of seconds; floats are idealised as exact rationals);        *)
(*   - Python's None is the empty tuple <<>>, a point is <<x, y>>;         *)
(*   - a deque is a sequence, oldest entry first;                          *)
(*   - a float velocity is the exact fraction num/den, a multiplier is an  *)
(*     integer number of tenths.                                           *)
(***************************************************************************)
EXTENDS Integers, Sequences, FiniteSets, TLC

VARIABLES
    \* ---- PunchCounter (utils/punch_counter.py) ----
    total_count,          \* self.total_count
    punch_counts,         \* self.punch_counts: punch type -> count
    position_history,     \* self.position_history: wrist key -> deque of points
    timestamp_history,    \* self.timestamp_history: wrist key -> deque of times
    last_punch_time,      \* self.last_punch_time: hand -> time
    velocity_threshold,   \* self.velocity_threshold
    calibration_data,     \* self.calibration_data
    punch_event_history,  \* what main.py reads as punch_counter.punch_event_history
    \* ---- environment and observations of the tracker ----
    now,                  \* the reading of time.time()
    frames,               \* number of frames fed to detect_punches so far
    frame_wrists,         \* the wrist keypoints of the last frame: wrist key -> point
    detected_punches,     \* the list returned by the last detect_punches call
    punch_log,            \* every punch event returned so far, with its hand and time
    \* ---- ComboDetector (utils/combo_detector.py) ----
    predefined_combos,    \* self.predefined_combos (sorted at construction)
    punch_history,        \* the argument of detect_combo
    combo_result,         \* the value detect_combo returned
    combo_pc,             \* "idle" before detect_combo is applied, "done" after
    combo_calls,          \* number of detect_combo calls made so far
    \* ---- _classify_punch_type applied to one input ----
    cls_keypoints,        \* the keypoints dictionary passed in
    cls_hand,             \* the hand passed in
    cls_result,           \* the value returned
    cls_pc,               \* "idle" before the call, "done" after
    \* ---- Calibrator (utils/calibration.py) ----
    calibrator_is_calibrating,  \* self.is_calibrating
    calibration_stage,    \* self.calibration_stage
    step_start_time,      \* self.step_start_time
    punch_velocities,     \* self.punch_velocities, in tenths
    calibrator_data,      \* self.calibration_data of the calibrator
    calibration_complete, \* the flag returned by the last process_calibration_frame
    calibration_log,      \* the completed runs: samples collected, multiplier left
    \* ---- DataManager (utils/data_manager.py) ----
    db_rows,              \* the rows of the sessions table, in insertion order
    backup_files,         \* the ids n for which a file session_n.json exists
    current_session_id,   \* self.current_session_id
    dm_message,           \* the last message printed by save_session_data
    dm_raised,            \* the exception the last call let through, or "None"
    saved_sessions,       \* the session data of the calls that stored a row
    backup_outcome,       \* how the backup write of the last save went
    historical_data,      \* the list returned by the last get_historical_data
    history_limit,        \* the limit of that call
    dm_pc,                \* "idle", "saved" after a save, "read" after a read
    \* ---- PunchTracker (main.py) ----
    is_paused,            \* self.is_paused
    is_calibrating,       \* self.is_calibrating
    current_detected_combo,   \* self.current_detected_combo
    last_combo_detected_time, \* self.last_combo_detected_time
    combo_stats,          \* self.combo_stats
    session_start_time,   \* self.session_start_time
    app_pc,               \* where run() stands: "start", "frame" or "key"
    key_presses,          \* keys handled by the main loop so far
    counted_combos        \* the combo successes counted so far, oldest first

trackerVars == <<total_count, punch_counts, position_history, timestamp_history,
                 last_punch_time, velocity_threshold, calibration_data,
                 punch_event_history, now, frames, frame_wrists, detected_punches,
                 punch_log>>
comboVars == <<predefined_combos, punch_history, combo_result, combo_pc, combo_calls>>
clsVars == <<cls_keypoints, cls_hand, cls_result, cls_pc>>
calVars == <<calibrator_is_calibrating, calibration_stage, step_start_time,
             punch_velocities, calibrator_data, calibration_complete,
             calibration_log>>
dmVars == <<db_rows, backup_files, current_session_id, dm_message, dm_raised,
            saved_sessions, backup_outcome, historical_data, history_limit, dm_pc>>
appVars == <<is_paused, is_calibrating, current_detected_combo,
             last_combo_detected_time, combo_stats, session_start_time, app_pc,
             key_presses, counted_combos>>
vars == <<trackerVars, comboVars, clsVars, calVars, dmVars, appVars>>

(***************************************************************************)
(* Bounds of the model                                                     *)
(***************************************************************************)
\* frames fed to detect_punches in one behaviour
MaxFrames == 3
\* longest punch history handed to detect_combo
MaxHist == 4
\* keypoint coordinates handed to _classify_punch_type range over 0..MaxCoord
MaxCoord == 2
\* the clock reading at construction (any reading past the cooldown)
StartTime == 1000000
\* frames fed to detect_punches in a behaviour with runtime controls
MaxControlFrames == 3
\* the sensitivity controls keep the threshold within -MaxThreshold..MaxThreshold
MaxThreshold == 60
\* frames fed to detect_punches in a behaviour that fills the position histories
MaxLongFrames == 12
\* longest punch history handed to detect_combo when it is called repeatedly
MaxCallHist == 4
\* calls of detect_combo on one punch history
MaxCalls == 2
\* frames fed to the calibrator in one behaviour
MaxCalibrationFrames == 10
\* rows stored by save_session_data in one behaviour
MaxSaves == 3
\* frames the main loop processes in one behaviour
MaxAppFrames == 5
\* frames the main loop processes in a behaviour with every key in use
MaxKeyFrames == 4
\* keys the main loop handles in one behaviour
MaxKeyPresses == 1
\* frames the main loop processes in a behaviour with pauses between punches
MaxWindowFrames == 5
\* frames the main loop processes in a behaviour with a calibration run
MaxCalibrationAppFrames == 8
\* entries the punch event history holds (the specification fixes no number)
EventHistoryMaxLen == 3

(***************************************************************************)
(* Program constants                                                       *)
(***************************************************************************)
JAB == "jab"
CROSS == "cross"
HOOK == "hook"
UPPERCUT == "uppercut"
PunchTypes == {JAB, CROSS, HOOK, UPPERCUT}
None == <<>>
Hands == {"left", "right"}
WristKeys == {"left_wrist", "right_wrist"}
KeypointNames == {"left_wrist", "right_wrist", "left_elbow", "right_elbow",
                  "left_shoulder", "right_shoulder"}

\* deque(maxlen=10)
HistoryMaxLen == 10
\* self.punch_cooldown = 0.5 seconds
PunchCooldown == 500000
\* self.velocity_threshold = 50
InitialVelocityThreshold == 50
\* "velocity_multiplier": 1.0, in tenths
InitialVelocityMultiplier == 10
\* microseconds per second
Micro == 1000 * 1000
\* max(5, ...) in increase_sensitivity
SensitivityFloor == 5
\* step=5, the default of increase_sensitivity and decrease_sensitivity
DefaultStep == 5

(***************************************************************************)
(* Arithmetic helpers                                                      *)
(***************************************************************************)
\* math.sqrt on the perfect squares the model's wrist positions produce:
\* the largest r in lo..hi with r * r <= n, found by bisection
RECURSIVE SqrtBetween(_, _, _)
SqrtBetween(n, lo, hi) ==
    IF lo >= hi THEN lo
    ELSE LET mid == (lo + hi + 1) \div 2
         IN IF mid * mid <= n THEN SqrtBetween(n, mid, hi)
            ELSE SqrtBetween(n, lo, mid - 1)

Sqrt(n) == IF n = 0 THEN 0
           ELSE SqrtBetween(n, 1, IF n < 4096 THEN 64 ELSE 46340)

Last(s) == s[Len(s)]

RECURSIVE Gcd(_, _)
Gcd(a, b) == IF b = 0 THEN a ELSE Gcd(b, a % b)

\* the float n/d (n >= 0, d > 0) as an exact fraction in lowest terms
Fraction(n, d) == [num |-> n \div Gcd(n, d), den |-> d \div Gcd(n, d)]

\* a float given in tenths
Tenths(n) == Fraction(n, 10)

\* deque.append on a deque without maxlen
DequeAppendUnbounded(q, x, maxlen) == Append(q, x)

\* deque.append on a deque with maxlen: the oldest entry is evicted when full
DequeAppend(q, x, maxlen) ==
    IF Len(q) >= maxlen THEN Append(Tail(q), x) ELSE Append(q, x)

WristKey(hand) == IF hand = "left" THEN "left_wrist" ELSE "right_wrist"

(***************************************************************************)
(* PunchCounter._calculate_velocity                                        *)
(* The result is [num, den, direction]: velocity = num/den pixels per      *)
(* second (displacement * multiplier over dt / Micro, the multiplier an    *)
(* exact fraction);                                                        *)
(* direction is None or <<dx, dy, displacement>>, standing for the unit    *)
(* vector (dx/displacement, dy/displacement).                              *)
(***************************************************************************)
ZeroVelocity == [num |-> 0, den |-> 1, direction |-> None]

\* lines 78-110 without the dt == 0 test of lines 100-101: a zero dt divides
\* as the smallest step of the clock
CalculateVelocityNoZeroCheck(positions, timestamps, calibration) ==
    IF Len(positions) < 2 \/ Len(timestamps) < 2 THEN ZeroVelocity
    ELSE LET pos1 == positions[Len(positions) - 1]
             pos2 == positions[Len(positions)]
             dx == pos2[1] - pos1[1]
             dy == pos2[2] - pos1[2]
             displacement == Sqrt(dx * dx + dy * dy)
             dt == timestamps[Len(timestamps)] - timestamps[Len(timestamps) - 1]
         IN [num |-> displacement * Micro * calibration.velocity_multiplier.num,
             den |-> (IF dt = 0 THEN 1 ELSE dt) * calibration.velocity_multiplier.den,
             direction |-> IF displacement > 0 THEN <<dx, dy, displacement>> ELSE None]

CalculateVelocity(positions, timestamps, calibration) ==
    IF Len(positions) < 2 \/ Len(timestamps) < 2 THEN ZeroVelocity
    ELSE LET pos1 == positions[Len(positions) - 1]
             pos2 == positions[Len(positions)]
             time1 == timestamps[Len(timestamps) - 1]
             time2 == timestamps[Len(timestamps)]
         IN IF pos1 = None \/ pos2 = None THEN ZeroVelocity
            ELSE LET dx == pos2[1] - pos1[1]
                     dy == pos2[2] - pos1[2]
                     displacement == Sqrt(dx * dx + dy * dy)
                     dt == time2 - time1
                 IN IF dt = 0 THEN ZeroVelocity
                    ELSE [num |-> displacement * Micro
                                      * calibration.velocity_multiplier.num,
                          den |-> dt * calibration.velocity_multiplier.den,
                          direction |-> IF displacement > 0
                                        THEN <<dx, dy, displacement>>
                                        ELSE None]

(***************************************************************************)
(* PunchCounter._is_punch_motion: the value it returns.  When it returns   *)
(* TRUE it has also set last_punch_time[hand] to current_time; the action  *)
(* DetectPunches makes that assignment.                                    *)
(***************************************************************************)
\* line 130 without the cooldown test
CooldownNeverBlocks(current_time, last_time) == FALSE

\* line 130
CooldownBlocks(current_time, last_time) == current_time - last_time < PunchCooldown

\* lines 115-116 rejecting a velocity equal to the threshold
IsPunchMotionStrict(velocity, hand, threshold, current_time, last_time) ==
    IF -((-velocity.num) \div velocity.den) <= threshold THEN FALSE
    ELSE IF velocity.direction = None THEN FALSE
    ELSE LET forward_direction == IF hand = "left"
                                  THEN velocity.direction[1] < 0
                                  ELSE velocity.direction[1] > 0
         IN IF ~forward_direction THEN FALSE
            ELSE IF CooldownBlocks(current_time, last_time) THEN FALSE
            ELSE TRUE

\* line 115 compares num/den with the integer threshold: num/den is below it
\* exactly when its floor is
IsPunchMotion(velocity, hand, threshold, current_time, last_time) ==
    IF velocity.num \div velocity.den < threshold THEN FALSE
    ELSE IF velocity.direction = None THEN FALSE
    ELSE LET forward_direction == IF hand = "left"
                                  THEN velocity.direction[1] < 0
                                  ELSE velocity.direction[1] > 0
         IN IF ~forward_direction THEN FALSE
            ELSE IF CooldownBlocks(current_time, last_time) THEN FALSE
            ELSE TRUE

(***************************************************************************)
(* PunchCounter._classify_punch_type                                       *)
(***************************************************************************)
Dist2(p, q) == (p[1] - q[1]) * (p[1] - q[1]) + (p[2] - q[2]) * (p[2] - q[2])

\* arm_extension_ratio > 0.8, where the ratio is
\*   sqrt(ws2) / (sqrt(es2) + sqrt(we2))   if the arm length is positive, else 0.
\* 5*sqrt(ws2) > 4*(sqrt(es2) + sqrt(we2)) is decided exactly by squaring twice.
IsExtended(ws2, es2, we2) ==
    IF es2 = 0 /\ we2 = 0 THEN FALSE
    ELSE LET d == 25 * ws2 - 16 * es2 - 16 * we2
         IN d > 0 /\ d * d > 1024 * es2 * we2

\* line 164: the default when a keypoint is missing
FallbackAlwaysJab(hand) == JAB

FallbackType(hand) == IF hand = "right" THEN CROSS ELSE JAB

\* lines 181-189 with the extension test made before the wrist-above-elbow test
DecideCrossFirst(hand, wrist_above_elbow, wrist_outside_shoulder, is_extended) ==
    IF hand = "right" /\ is_extended THEN CROSS
    ELSE IF wrist_above_elbow /\ is_extended THEN UPPERCUT
    ELSE IF wrist_outside_shoulder /\ ~is_extended THEN HOOK
    ELSE JAB

\* lines 181-189 without the hand test of line 186
DecideCrossEitherHand(hand, wrist_above_elbow, wrist_outside_shoulder, is_extended) ==
    IF wrist_above_elbow /\ is_extended THEN UPPERCUT
    ELSE IF wrist_outside_shoulder /\ ~is_extended THEN HOOK
    ELSE IF is_extended THEN CROSS
    ELSE JAB

\* lines 181-189: the ordered branches
DecidePunchType(hand, wrist_above_elbow, wrist_outside_shoulder, is_extended) ==
    IF wrist_above_elbow /\ is_extended THEN UPPERCUT
    ELSE IF wrist_outside_shoulder /\ ~is_extended THEN HOOK
    ELSE IF hand = "right" /\ is_extended THEN CROSS
    ELSE JAB

ElbowKey(hand) == IF hand = "left" THEN "left_elbow" ELSE "right_elbow"
ShoulderKey(hand) == IF hand = "left" THEN "left_shoulder" ELSE "right_shoulder"
OppositeShoulderKey(hand) == IF hand = "left" THEN "right_shoulder" ELSE "left_shoulder"

\* the velocity argument is never read by the code and is left out
ClassifyPunchType(keypoints, hand) ==
    LET wrist == keypoints[WristKey(hand)]
        elbow == keypoints[ElbowKey(hand)]
        shoulder == keypoints[ShoulderKey(hand)]
        opposite_shoulder == keypoints[OppositeShoulderKey(hand)]
    IN IF None \in {wrist, elbow, shoulder, opposite_shoulder}
       THEN FallbackType(hand)
       ELSE LET wrist_above_elbow == wrist[2] < elbow[2]
                wrist_outside_shoulder == IF hand = "left"
                                          THEN wrist[1] < shoulder[1]
                                          ELSE wrist[1] > shoulder[1]
                is_extended == IsExtended(Dist2(wrist, shoulder),
                                          Dist2(elbow, shoulder),
                                          Dist2(wrist, elbow))
            IN DecidePunchType(hand, wrist_above_elbow, wrist_outside_shoulder,
                               is_extended)

(***************************************************************************)
(* PunchCounter.detect_punches                                             *)
(***************************************************************************)
\* lines 209-213 storing a position for both hands whenever a wrist is detected
UpdatedPositionsEitherWrist(hand_keypoints) ==
    [k \in WristKeys |->
        IF \E j \in WristKeys : hand_keypoints[j] # None
        THEN DequeAppend(position_history[k], hand_keypoints[k], HistoryMaxLen)
        ELSE position_history[k]]

\* lines 207-213: the histories after the frame's wrist samples are stored
UpdatedPositions(hand_keypoints) ==
    [k \in WristKeys |->
        IF hand_keypoints[k] # None
        THEN DequeAppend(position_history[k], hand_keypoints[k], HistoryMaxLen)
        ELSE position_history[k]]

UpdatedTimestamps(hand_keypoints, current_time) ==
    [k \in WristKeys |->
        IF hand_keypoints[k] # None
        THEN DequeAppend(timestamp_history[k], current_time, HistoryMaxLen)
        ELSE timestamp_history[k]]

\* lines 219-226: whether the loop body accepts a punch for `hand`, given the
\* updated histories
HandAccepts(hand, positions, timestamps, current_time) ==
    IsPunchMotion(CalculateVelocity(positions[WristKey(hand)],
                                    timestamps[WristKey(hand)],
                                    calibration_data),
                  hand, velocity_threshold, current_time, last_punch_time[hand])

\* lines 227-238: the punch event of an accepting hand
PunchEvent(hand, hand_keypoints, positions, current_time) ==
    [hand |-> hand,
     type |-> ClassifyPunchType(hand_keypoints, hand),
     coords |-> Last(positions[WristKey(hand)]),
     time |-> current_time]

\* the loop of line 218 visiting the left hand twice
FrameEventsLeftTwice(accepts, hand_keypoints, positions, current_time) ==
    (IF accepts["left"]
     THEN <<PunchEvent("left", hand_keypoints, positions, current_time),
            PunchEvent("left", hand_keypoints, positions, current_time)>> ELSE <<>>)
    \o
    (IF accepts["right"]
     THEN <<PunchEvent("right", hand_keypoints, positions, current_time)>> ELSE <<>>)

\* the events of one call, left hand first (line 218); accepts[h] tells whether
\* _is_punch_motion returned True for hand h
FrameEvents(accepts, hand_keypoints, positions, current_time) ==
    (IF accepts["left"]
     THEN <<PunchEvent("left", hand_keypoints, positions, current_time)>> ELSE <<>>)
    \o
    (IF accepts["right"]
     THEN <<PunchEvent("right", hand_keypoints, positions, current_time)>> ELSE <<>>)

CountOf(events, type) == Len(SelectSeq(events, LAMBDA e : e.type = type))

\* lines 191-242 never write punch_event_history
HistoryAfterDetect(history, events) == history

(***************************************************************************)
(* Frames the model feeds to the tracker                                   *)
(***************************************************************************)
\* wrist positions on one line: every pairwise distance (0, 25, 50) is an integer
P0 == <<0, 0>>
P1 == <<15, 20>>
P2 == <<30, 40>>

\* (left wrist, right wrist) of a frame: both hands at the same place, the two
\* hands crossing, one wrist not detected
WristPairs == { <<P0, P0>>, <<P1, P1>>, <<P2, P2>>, <<P2, P0>>, <<P0, P2>>,
                <<P1, None>>, <<None, P1>> }

\* clock advance between two frames, in microseconds
FrameSteps == {250000, 500000}

\* elbows and shoulders of a frame
Stances ==
    { \* straight arms: elbows in the middle, shoulders at opposite ends
      [left_elbow |-> <<15, 20>>, right_elbow |-> <<15, 20>>,
       left_shoulder |-> <<30, 40>>, right_shoulder |-> <<0, 0>>],
      \* folded arms: shoulders in the middle, elbows beyond them
      [left_elbow |-> <<30, 40>>, right_elbow |-> <<0, 0>>,
       left_shoulder |-> <<15, 20>>, right_shoulder |-> <<15, 20>>] }

HandKeypoints(lw, rw, stance) ==
    [n \in KeypointNames |->
        IF n = "left_wrist" THEN lw
        ELSE IF n = "right_wrist" THEN rw
        ELSE stance[n]]

\* line 134 with one timer shared by the two hands
LastPunchTimeShared(accepts, current_time) ==
    [h \in Hands |-> IF \E g \in Hands : accepts[g] THEN current_time
                     ELSE last_punch_time[h]]

\* line 134, reached for the hands whose motion the gate accepts
LastPunchTimeAfter(accepts, current_time) ==
    [h \in Hands |-> IF accepts[h] THEN current_time ELSE last_punch_time[h]]

\* lines 218-226: the hands whose motion the gate accepts in this call
FrameAccepts(hand_keypoints, current_time) ==
    LET positions == UpdatedPositions(hand_keypoints)
        timestamps == UpdatedTimestamps(hand_keypoints, current_time)
        acceptsLeft == HandAccepts("left", positions, timestamps, current_time)
        acceptsRight == HandAccepts("right", positions, timestamps, current_time)
    IN [h \in Hands |-> IF h = "left" THEN acceptsLeft ELSE acceptsRight]

\* the list detect_punches returns at the clock reading current_time
DetectedEvents(hand_keypoints, current_time) ==
    FrameEvents(FrameAccepts(hand_keypoints, current_time), hand_keypoints,
                UpdatedPositions(hand_keypoints), current_time)

\* PunchCounter.detect_punches at the clock reading current_time: what it
\* does to the fields of the counter
DetectPunchesCore(hand_keypoints, current_time) ==
    LET accepts == FrameAccepts(hand_keypoints, current_time)
        events == DetectedEvents(hand_keypoints, current_time)
    IN /\ frame_wrists' = [k \in WristKeys |-> hand_keypoints[k]]
       /\ position_history' = UpdatedPositions(hand_keypoints)
       /\ timestamp_history' = UpdatedTimestamps(hand_keypoints, current_time)
       /\ last_punch_time' = LastPunchTimeAfter(accepts, current_time)
       /\ punch_counts' =
             [t \in PunchTypes |-> punch_counts[t] + CountOf(events, t)]
       /\ total_count' = total_count + Len(events)
       /\ detected_punches' = events
       /\ punch_log' = punch_log \o events

\* PunchCounter.detect_punches at the clock reading current_time
DetectPunchesAt(hand_keypoints, current_time) ==
    /\ DetectPunchesCore(hand_keypoints, current_time)
    /\ punch_event_history' =
          HistoryAfterDetect(punch_event_history,
                             DetectedEvents(hand_keypoints, current_time))

\* one call of detect_punches, `step` after the previous clock reading, in a
\* behaviour of at most `limit` frames
DetectPunchesWithin(hand_keypoints, step, limit) ==
    /\ frames < limit
    /\ now' = now + step
    /\ frames' = frames + 1
    /\ DetectPunchesAt(hand_keypoints, now + step)
    /\ UNCHANGED <<velocity_threshold, calibration_data>>
    /\ UNCHANGED <<comboVars, clsVars, calVars, dmVars, appVars>>

DetectPunches(hand_keypoints, step) ==
    DetectPunchesWithin(hand_keypoints, step, MaxFrames)

Frame ==
    \E pair \in WristPairs, stance \in Stances, step \in FrameSteps :
        DetectPunches(HandKeypoints(pair[1], pair[2], stance), step)

\* a fourth wrist position on the same line, 10 from P0, 15 from P1, 40 from P2
P3 == <<6, 8>>

\* frames that exercise each gate of _is_punch_motion on its own: fast and slow
\* motion in both directions, a wrist that stays, a wrist that is not detected
GatePairs == { <<P2, P0>>, <<P1, P1>>, <<P3, P3>>, <<P0, P2>>, <<P1, None>>,
               <<None, P1>> }

\* clock advance between two frames; 0 is two calls within one clock tick
GateSteps == {0, 250000, 500000}

GateStance ==
    [left_elbow |-> <<15, 20>>, right_elbow |-> <<15, 20>>,
     left_shoulder |-> <<30, 40>>, right_shoulder |-> <<0, 0>>]

GateFrame ==
    \E pair \in GatePairs, step \in GateSteps :
        DetectPunches(HandKeypoints(pair[1], pair[2], GateStance), step)

\* frames of a long session, a quarter of a second apart: both wrists detected,
\* or the left wrist elsewhere and the right wrist not detected
LongPairs == { <<P2, P0>>, <<P1, None>> }

LongFrame ==
    \E pair \in LongPairs :
        DetectPunchesWithin(HandKeypoints(pair[1], pair[2], GateStance), 250000,
                            MaxLongFrames)

(***************************************************************************)
(* Runtime controls of PunchCounter                                        *)
(***************************************************************************)
\* reset_counter zeroing the jab counter only
ResetCountsJabOnly(counts) == [counts EXCEPT ![JAB] = 0]

\* reset_counter leaving the per-type counters as they are
ResetCountsKeep(counts) == counts

\* lines 66-67: every per-type counter back to 0
ResetCounts(counts) == [t \in DOMAIN counts |-> 0]

\* PunchCounter.reset_counter
ResetCounter ==
    /\ total_count' = 0
    /\ punch_counts' = ResetCounts(punch_counts)
    /\ UNCHANGED <<position_history, timestamp_history, last_punch_time,
                   velocity_threshold, calibration_data, punch_event_history,
                   now, frames, frame_wrists, detected_punches, punch_log>>
    /\ UNCHANGED <<comboVars, clsVars, calVars, dmVars, appVars>>

\* line 57
RaisedSensitivity(threshold, step) ==
    IF threshold - step > SensitivityFloor THEN threshold - step ELSE SensitivityFloor

\* line 61
LoweredSensitivity(threshold, step) == threshold + step

\* the step argument: the default, and a negative step
SensitivitySteps == {DefaultStep, -50}

ThresholdInRange(threshold) == -MaxThreshold <= threshold /\ threshold <= MaxThreshold

\* PunchCounter.increase_sensitivity(step)
IncreaseSensitivity(step) ==
    /\ ThresholdInRange(RaisedSensitivity(velocity_threshold, step))
    /\ velocity_threshold' = RaisedSensitivity(velocity_threshold, step)
    /\ UNCHANGED <<total_count, punch_counts, position_history, timestamp_history,
                   last_punch_time, calibration_data, punch_event_history,
                   now, frames, frame_wrists, detected_punches, punch_log>>
    /\ UNCHANGED <<comboVars, clsVars, calVars, dmVars, appVars>>

\* PunchCounter.decrease_sensitivity(step)
DecreaseSensitivity(step) ==
    /\ ThresholdInRange(LoweredSensitivity(velocity_threshold, step))
    /\ velocity_threshold' = LoweredSensitivity(velocity_threshold, step)
    /\ UNCHANGED <<total_count, punch_counts, position_history, timestamp_history,
                   last_punch_time, calibration_data, punch_event_history,
                   now, frames, frame_wrists, detected_punches, punch_log>>
    /\ UNCHANGED <<comboVars, clsVars, calVars, dmVars, appVars>>

\* apply_calibration updating the fields of the old adjustment one by one
MergedCalibration(old, new) ==
    [k \in DOMAIN old \cup DOMAIN new |-> IF k \in DOMAIN new THEN new[k] ELSE old[k]]

\* line 75: self.calibration_data = calibration_data
AppliedCalibration(old, new) == new

\* adjustments handed to apply_calibration: the record of the calibrator with
\* the multiplier at 2.0, and a record with nothing but a multiplier of 0.5
CalibrationRecords ==
    { [velocity_multiplier |-> Tenths(20), direction_adjust |-> 0,
       threshold_adjust |-> 0],
      [velocity_multiplier |-> Tenths(5)] }

\* PunchCounter.apply_calibration(calibration_data)
ApplyCalibration(new_calibration) ==
    /\ calibration_data' = AppliedCalibration(calibration_data, new_calibration)
    /\ UNCHANGED <<total_count, punch_counts, position_history, timestamp_history,
                   last_punch_time, velocity_threshold, punch_event_history,
                   now, frames, frame_wrists, detected_punches, punch_log>>
    /\ UNCHANGED <<comboVars, clsVars, calVars, dmVars, appVars>>

\* frames fed between the controls: the hands crossing or meeting or the right
\* wrist not detected, half a second apart, in either stance
ControlPairs == { <<P2, P0>>, <<P0, P2>>, <<P1, P1>>, <<P1, None>> }

ControlFrame ==
    \E pair \in ControlPairs, stance \in Stances :
        DetectPunchesWithin(HandKeypoints(pair[1], pair[2], stance), 500000,
                            MaxControlFrames)

(***************************************************************************)
(* Calibrator (utils/calibration.py)                                       *)
(* A keypoint is None or <<x, y, confidence>>, the confidence an integer   *)
(* number of tenths; the multiplier is an exact fraction.                  *)
(***************************************************************************)
\* self.calibration_steps
CalibrationSteps ==
    << "Prepare for calibration (5 sec)", "Throw a few jabs and crosses",
       "Throw a few hooks", "Throw a few uppercuts", "Calibration complete!" >>

\* self.step_durations, in seconds
StepDurations == <<5, 10, 10, 10, 3>>

FractionLess(a, b) == a.num * b.den < b.num * a.den
FractionMin(a, b) == IF FractionLess(b, a) THEN b ELSE a
FractionMax(a, b) == IF FractionLess(a, b) THEN b ELSE a
FractionDiv(a, b) == Fraction(a.num * b.den, a.den * b.num)

RECURSIVE Sum(_)
Sum(s) == IF s = <<>> THEN 0 ELSE s[1] + Sum(Tail(s))

\* line 105 without the cap
UncappedMultiplier(multiplier) == multiplier

\* line 105: max(0.5, min(2.0, multiplier))
CappedMultiplier(multiplier) ==
    FractionMax(Tenths(5), FractionMin(Tenths(20), multiplier))

\* Calibrator._process_calibration_data: the calibration data it leaves
ProcessCalibrationData(velocities, data) ==
    IF velocities # <<>>
    THEN LET avg_velocity == Fraction(Sum(velocities), 10 * Len(velocities))
             multiplier == IF avg_velocity.num > 0
                           THEN FractionDiv(Tenths(15), avg_velocity)
                           ELSE Tenths(10)
         IN [data EXCEPT !.velocity_multiplier = CappedMultiplier(multiplier)]
    ELSE data

\* Calibrator._collect_calibration_data: the confidence of each wrist that is
\* present is appended, the left wrist first
CollectCalibrationData(velocities, hand_keypoints) ==
    LET with_left == IF hand_keypoints["left_wrist"] # None
                     THEN Append(velocities, hand_keypoints["left_wrist"][3])
                     ELSE velocities
    IN IF hand_keypoints["right_wrist"] # None
       THEN Append(with_left, hand_keypoints["right_wrist"][3])
       ELSE with_left

\* line 59 reading the duration of the first step for every stage
StepElapsedFirstDuration(current_time) ==
    current_time - step_start_time >= StepDurations[1] * Micro

\* line 59: the current step has lasted its duration
StepElapsed(current_time) ==
    current_time - step_start_time >= StepDurations[calibration_stage + 1] * Micro

\* the stage after line 60
StageAfter(current_time) ==
    IF StepElapsed(current_time) THEN calibration_stage + 1 ELSE calibration_stage

\* line 64: all steps are complete
AllStepsComplete(current_time) ==
    StepElapsed(current_time) /\ StageAfter(current_time) >= Len(CalibrationSteps)

\* Calibrator.process_calibration_frame at the clock reading current_time,
\* for the wrist keypoints of the frame
ProcessCalibrationFrame(hand_keypoints, current_time) ==
    /\ calibration_stage' = StageAfter(current_time)
    /\ step_start_time' = IF StepElapsed(current_time) THEN current_time
                          ELSE step_start_time
    /\ calibration_complete' = AllStepsComplete(current_time)
    /\ IF AllStepsComplete(current_time)
       THEN /\ calibrator_data' = ProcessCalibrationData(punch_velocities,
                                                         calibrator_data)
            /\ calibrator_is_calibrating' = FALSE
            /\ calibration_log' =
                   Append(calibration_log,
                          [samples |-> Len(punch_velocities),
                           multiplier |-> ProcessCalibrationData(
                               punch_velocities, calibrator_data).velocity_multiplier])
            /\ UNCHANGED punch_velocities
       ELSE /\ punch_velocities' =
                   IF 1 <= StageAfter(current_time) /\ StageAfter(current_time) <= 3
                   THEN CollectCalibrationData(punch_velocities, hand_keypoints)
                   ELSE punch_velocities
            /\ UNCHANGED <<calibrator_data, calibrator_is_calibrating,
                           calibration_log>>

\* Calibrator.start_calibration at the clock reading current_time
StartCalibrationAt(current_time) ==
    /\ calibrator_is_calibrating' = TRUE
    /\ calibration_stage' = 0
    /\ step_start_time' = current_time
    /\ punch_velocities' = <<>>
    /\ UNCHANGED <<calibrator_data, calibration_complete, calibration_log>>

\* the wrist keypoints of a calibration frame: no wrist, both wrists certain,
\* the left wrist alone at confidence 0.5
CalibrationKeypoints ==
    { [left_wrist |-> None, right_wrist |-> None],
      [left_wrist |-> <<15, 20, 10>>, right_wrist |-> <<30, 40, 10>>],
      [left_wrist |-> <<15, 20, 5>>, right_wrist |-> None] }

\* the time between two frames of a calibration run
CalibrationFrameSteps == {5 * Micro, 10 * Micro}

\* start_calibration called on the calibrator
StartCalibration ==
    /\ StartCalibrationAt(now)
    /\ UNCHANGED <<trackerVars, comboVars, clsVars, dmVars, appVars>>

\* a frame handed to process_calibration_frame while a run is on
CalibrationFrame ==
    \E hand_keypoints \in CalibrationKeypoints, step \in CalibrationFrameSteps :
        /\ calibrator_is_calibrating
        /\ frames < MaxCalibrationFrames
        /\ now' = now + step
        /\ frames' = frames + 1
        /\ ProcessCalibrationFrame(hand_keypoints, now + step)
        /\ UNCHANGED <<total_count, punch_counts, position_history,
                       timestamp_history, last_punch_time, velocity_threshold,
                       calibration_data, punch_event_history, frame_wrists,
                       detected_punches, punch_log>>
        /\ UNCHANGED <<comboVars, clsVars, dmVars, appVars>>

(***************************************************************************)
(* DataManager (utils/data_manager.py)                                     *)
(* A dict is a function on its keys; a date is a number that orders as the *)
(* date text does; a row of the sessions table is a record of its columns. *)
(***************************************************************************)
\* {}
EmptyDict == <<>>

\* dict.get(key, default)
DictGet(d, key, default) == IF key \in DOMAIN d THEN d[key] ELSE default

\* json.dumps of a dict with string keys: the text is modelled by the list of
\* its <<key, value>> members
JsonDumps(d) ==
    LET n == Cardinality(DOMAIN d)
        keys == CHOOSE f \in [1..n -> DOMAIN d] :
                    \A i, j \in 1..n : i # j => f[i] # f[j]
    IN [i \in 1..n |-> <<keys[i], d[keys[i]]>>]

\* json.loads of such a text
JsonLoads(text) ==
    [k \in {text[i][1] : i \in 1..Len(text)} |->
        text[CHOOSE i \in 1..Len(text) : text[i][1] = k][2]]

\* the keys lines 85-88 read with session_data[...]
RequiredKeys == {"date", "duration", "total_punches", "punches_per_minute"}

\* lines 84-96 with the jab and cross counts in each other's column
SessionRowSwapped(session_data, id) ==
    LET punch_types == DictGet(session_data, "punch_types", EmptyDict)
        stats == DictGet(session_data, "combo_stats", EmptyDict)
    IN [id |-> id,
        date |-> session_data["date"],
        duration |-> session_data["duration"],
        total_punches |-> session_data["total_punches"],
        punches_per_minute |-> session_data["punches_per_minute"],
        jab_count |-> DictGet(punch_types, CROSS, 0),
        cross_count |-> DictGet(punch_types, JAB, 0),
        hook_count |-> DictGet(punch_types, HOOK, 0),
        uppercut_count |-> DictGet(punch_types, UPPERCUT, 0),
        combo_successes |-> DictGet(stats, "successes", 0),
        combo_attempts |-> DictGet(stats, "attempts", 0),
        combo_details |-> JsonDumps(DictGet(stats, "detected_combos", EmptyDict))]

\* lines 77-96: the row inserted for session_data, with the id SQLite gives it
SessionRow(session_data, id) ==
    LET punch_types == DictGet(session_data, "punch_types", EmptyDict)
        stats == DictGet(session_data, "combo_stats", EmptyDict)
    IN [id |-> id,
        date |-> session_data["date"],
        duration |-> session_data["duration"],
        total_punches |-> session_data["total_punches"],
        punches_per_minute |-> session_data["punches_per_minute"],
        jab_count |-> DictGet(punch_types, JAB, 0),
        cross_count |-> DictGet(punch_types, CROSS, 0),
        hook_count |-> DictGet(punch_types, HOOK, 0),
        uppercut_count |-> DictGet(punch_types, UPPERCUT, 0),
        combo_successes |-> DictGet(stats, "successes", 0),
        combo_attempts |-> DictGet(stats, "attempts", 0),
        combo_details |-> JsonDumps(DictGet(stats, "detected_combos", EmptyDict))]

\* how the write of the backup file can go: written; open() fails and no file
\* is created; open() creates the file and a later write fails
BackupOutcomes == {"written", "open_fails", "write_fails"}

\* DataManager._save_json_backup: the backup files afterwards
BackupFilesAfter(files, session_id, outcome) ==
    IF outcome = "open_fails" THEN files ELSE files \cup {session_id}

\* DataManager._save_json_backup: the message it prints
BackupMessage(outcome) ==
    IF outcome = "written" THEN "Session backup saved"
    ELSE "Failed to write backup file"

\* DataManager.save_session_data(session_data), the backup write going as
\* `outcome` says
SaveSessionDataCall(session_data, outcome) ==
    /\ dm_pc' = "saved"
    /\ IF DOMAIN session_data = {}
       THEN /\ dm_message' = "No session data to save"
            /\ dm_raised' = "None"
            /\ backup_outcome' = "None"
            /\ UNCHANGED <<db_rows, backup_files, saved_sessions>>
       ELSE IF ~(RequiredKeys \subseteq DOMAIN session_data)
       THEN /\ dm_raised' = "KeyError"
            /\ backup_outcome' = "None"
            /\ UNCHANGED <<db_rows, backup_files, saved_sessions, dm_message>>
       ELSE LET session_id == Len(db_rows) + 1
            IN /\ db_rows' = Append(db_rows, SessionRow(session_data, session_id))
               /\ saved_sessions' = Append(saved_sessions, session_data)
               /\ backup_files' = BackupFilesAfter(backup_files, session_id, outcome)
               /\ dm_message' = BackupMessage(outcome)
               /\ backup_outcome' = outcome
               /\ dm_raised' = "None"
    /\ UNCHANGED <<current_session_id, historical_data, history_limit>>

\* lines 152-169: the dict built from a fetched row
RowToDict(row) ==
    [date |-> row.date,
     duration |-> row.duration,
     total_punches |-> row.total_punches,
     punches_per_minute |-> row.punches_per_minute,
     punch_types |-> [t \in PunchTypes |->
                         IF t = JAB THEN row.jab_count
                         ELSE IF t = CROSS THEN row.cross_count
                         ELSE IF t = HOOK THEN row.hook_count
                         ELSE row.uppercut_count],
     combo_stats |-> [successes |-> row.combo_successes,
                      attempts |-> row.combo_attempts,
                      detected_combos |-> JsonLoads(row.combo_details)]]

\* ORDER BY date DESC: the orders in which the rows can come back (SQL leaves
\* the order of rows with equal dates open)
DateOrders(rows) ==
    { order \in [1..Len(rows) -> 1..Len(rows)] :
        /\ \A i, j \in 1..Len(rows) : i # j => order[i] # order[j]
        /\ \A i, j \in 1..Len(rows) :
              i < j => rows[order[i]].date >= rows[order[j]].date }

\* LIMIT ?: the first `limit` rows in that order
Fetched(rows, order, limit) ==
    [i \in 1..(IF limit < Len(rows) THEN limit ELSE Len(rows)) |-> rows[order[i]]]

\* DataManager.get_historical_data(limit)
GetHistoricalDataCall(limit) ==
    \E order \in DateOrders(db_rows) :
        /\ historical_data' =
              [i \in 1..Len(Fetched(db_rows, order, limit)) |->
                  RowToDict(Fetched(db_rows, order, limit)[i])]
        /\ history_limit' = limit
        /\ dm_pc' = "read"
        /\ dm_raised' = "None"
        /\ UNCHANGED <<db_rows, backup_files, current_session_id, dm_message,
                       saved_sessions, backup_outcome>>

\* limit=10, the default of get_historical_data
DefaultLimit == 10

\* limits handed to get_historical_data
HistoryLimits == {1, 2, DefaultLimit}

\* session data handed to save_session_data: a session as end_session builds
\* it; the session of tests/test_data_manager.py, a day later; a session with
\* partial combo statistics; data without a duration; no data
SessionInputs ==
    << [date |-> 1, duration |-> 60, total_punches |-> 3, punches_per_minute |-> 3,
        punch_types |-> [jab |-> 2, cross |-> 1, hook |-> 0, uppercut |-> 0],
        combo_stats |-> [attempts |-> 0, successes |-> 1,
                         detected_combos |-> ("Jab-Cross" :> 1)]],
       [date |-> 2, duration |-> 10, total_punches |-> 5, punches_per_minute |-> 30,
        punch_types |-> [jab |-> 2, cross |-> 3]],
       [date |-> 2, duration |-> 5, total_punches |-> 2, punches_per_minute |-> 24,
        combo_stats |-> [successes |-> 2]],
       [date |-> 3, total_punches |-> 1],
       EmptyDict >>

\* a call of save_session_data
SaveSessionData ==
    \E i \in 1..Len(SessionInputs), outcome \in BackupOutcomes :
        /\ Len(db_rows) < MaxSaves
        /\ SaveSessionDataCall(SessionInputs[i], outcome)
        /\ UNCHANGED <<trackerVars, comboVars, clsVars, calVars, appVars>>

\* a call of get_historical_data
GetHistoricalData ==
    \E limit \in HistoryLimits :
        /\ GetHistoricalDataCall(limit)
        /\ UNCHANGED <<trackerVars, comboVars, clsVars, calVars, appVars>>

(***************************************************************************)
(* ComboDetector (utils/combo_detector.py)                                 *)
(* A history entry is <<punch_type, timestamp>>; "None" is the value       *)
(* detect_combo returns when nothing matches.                              *)
(***************************************************************************)
DEFAULT_COMBOS ==
    << [name |-> "Jab-Cross", sequence |-> <<JAB, CROSS>>, timing |-> <<700000>>],
       [name |-> "Jab-Jab-Cross", sequence |-> <<JAB, JAB, CROSS>>,
        timing |-> <<500000, 700000>>],
       [name |-> "Jab-Cross-Hook", sequence |-> <<JAB, CROSS, HOOK>>,
        timing |-> <<700000, 700000>>],
       [name |-> "Hook-Cross-Hook", sequence |-> <<HOOK, CROSS, HOOK>>,
        timing |-> <<700000, 700000>>] >>

\* the custom library of tests/test_combo_detector.py
CUSTOM_COMBOS ==
    << [name |-> "Test-Jab-Cross", sequence |-> <<JAB, CROSS>>, timing |-> <<500000>>],
       [name |-> "Test-Triple-Jab", sequence |-> <<JAB, JAB, JAB>>,
        timing |-> <<300000, 300000>>] >>

\* epsilon = 1e-6 seconds
Epsilon == 1

MaxSeqLen(combos) ==
    IF combos = <<>> THEN 0
    ELSE CHOOSE m \in {Len(combos[i].sequence) : i \in 1..Len(combos)} :
            \A i \in 1..Len(combos) : Len(combos[i].sequence) <= m

\* sorted(combos, key=lambda c: len(c['sequence']), reverse=True): a stable sort,
\* so patterns of equal length keep the order they were given in
RECURSIVE SortFrom(_, _)
SortFrom(combos, len) ==
    IF len < 0 THEN <<>>
    ELSE SelectSeq(combos, LAMBDA c : Len(c.sequence) = len) \o SortFrom(combos, len - 1)

\* a descending sort that puts the later of two equally long patterns first
SortedCombosTiesReversed(combos) ==
    SortFrom([i \in 1..Len(combos) |-> combos[Len(combos) + 1 - i]], MaxSeqLen(combos))

\* __init__ keeping the library in the order given
UnsortedCombos(combos) == combos

SortedCombos(combos) == SortFrom(combos, MaxSeqLen(combos))

\* list(punch_history)[:n], the oldest punches
LeadingWindow(history, n) == SubSeq(history, 1, n)

\* list(punch_history)[-n:]
Trailing(history, n) == SubSeq(history, Len(history) - n + 1, Len(history))

\* lines 70-75 comparing the first punch only
SequenceMatchesFirstOnly(relevant_history, combo_sequence) ==
    relevant_history[1][1] = combo_sequence[1]

\* lines 70-75: the punch types of the window are the pattern's, in order
SequenceMatches(relevant_history, combo_sequence) ==
    \A i \in 1..Len(combo_sequence) : relevant_history[i][1] = combo_sequence[i]

\* line 88 with an exclusive bound
TooSlowExclusive(time_diff, max_time) == time_diff >= max_time

\* line 88 with epsilon = 1e-3
TooSlowWideTolerance(time_diff, max_time) == time_diff > max_time + 1000

\* line 88: the test that fails a timing constraint
TooSlow(time_diff, max_time) == time_diff > max_time + Epsilon

\* lines 84-90
TimeMatches(relevant_history, combo_timings) ==
    \A i \in 1..Len(combo_timings) :
        ~TooSlow(relevant_history[i + 1][2] - relevant_history[i][2], combo_timings[i])

\* one iteration of the loop of lines 59-94: whether `combo` is returned
ComboMatches(history, combo) ==
    /\ Len(history) >= Len(combo.sequence)
    /\ SequenceMatches(Trailing(history, Len(combo.sequence)), combo.sequence)
    /\ TimeMatches(Trailing(history, Len(combo.sequence)), combo.timing)

\* the loop of lines 59-96 returning None at the first pattern whose punch types
\* match and whose timing fails
RECURSIVE DetectFromGiveUp(_, _, _)
DetectFromGiveUp(history, combos, i) ==
    IF i > Len(combos) THEN "None"
    ELSE IF ComboMatches(history, combos[i]) THEN combos[i].name
    ELSE IF /\ Len(history) >= Len(combos[i].sequence)
            /\ SequenceMatches(Trailing(history, Len(combos[i].sequence)),
                               combos[i].sequence)
         THEN "None"
    ELSE DetectFromGiveUp(history, combos, i + 1)

\* the loop of lines 59-96, from pattern number i on
RECURSIVE DetectFrom(_, _, _)
DetectFrom(history, combos, i) ==
    IF i > Len(combos) THEN "None"
    ELSE IF ComboMatches(history, combos[i]) THEN combos[i].name
    ELSE DetectFrom(history, combos, i + 1)

\* detect_combo returning a name on the first call only
DetectComboForgetful(history, combos) ==
    IF combo_calls > 0 THEN "None"
    ELSE IF history = <<>> \/ Len(history) < 2 THEN "None"
    ELSE DetectFrom(history, combos, 1)

\* detect_combo without the guard of lines 56-57
DetectComboNoGuard(history, combos) == DetectFrom(history, combos, 1)

\* ComboDetector.detect_combo
DetectCombo(history, combos) ==
    IF history = <<>> \/ Len(history) < 2 THEN "None"
    ELSE DetectFrom(history, combos, 1)

\* ComboDetector.__init__: the library the detector keeps
ComboDetectorInit(combos) == SortedCombos(combos)

\* the call detect_combo(punch_history), at most `limit` times on one history
DetectComboCallWithin(limit) ==
    /\ combo_calls < limit
    /\ combo_result' = DetectCombo(punch_history, predefined_combos)
    /\ combo_pc' = "done"
    /\ combo_calls' = combo_calls + 1
    /\ UNCHANGED <<predefined_combos, punch_history>>
    /\ UNCHANGED <<trackerVars, clsVars, calVars, dmVars, appVars>>

\* one call of detect_combo
DetectComboCall == DetectComboCallWithin(1)

\* repeated calls on a history the caller leaves as it is
DetectComboCalls == DetectComboCallWithin(MaxCalls)

\* gaps of the histories that are matched repeatedly: inside and outside the
\* default constraints
CallGaps == {400000, 700002}

\* gaps between consecutive punches of a history handed to detect_combo:
\* inside both default constraints, exactly 0.7 s, 0.7 s plus the tolerance,
\* and the first gap past the tolerance
HistoryGaps == {400000, 700000, 700001, 700002}

Libraries == {DEFAULT_COMBOS, CUSTOM_COMBOS}

\* a library with a pattern of a single punch
SINGLE_COMBOS ==
    << [name |-> "Single-Jab", sequence |-> <<JAB>>, timing |-> <<>>],
       [name |-> "Test-Jab-Cross", sequence |-> <<JAB, CROSS>>, timing |-> <<500000>>] >>

AnyLibraries == Libraries \cup {SINGLE_COMBOS}

\* custom libraries with two patterns of the same punches and different timing,
\* and a longer pattern supplied after them or between them
TIE_COMBOS ==
    << [name |-> "Quick-Jab-Cross", sequence |-> <<JAB, CROSS>>, timing |-> <<500000>>],
       [name |-> "Jab-Cross", sequence |-> <<JAB, CROSS>>, timing |-> <<700000>>],
       [name |-> "Jab-Jab-Cross", sequence |-> <<JAB, JAB, CROSS>>,
        timing |-> <<500000, 700000>>] >>

TIE_COMBOS_SWAPPED ==
    << [name |-> "Jab-Cross", sequence |-> <<JAB, CROSS>>, timing |-> <<700000>>],
       [name |-> "Jab-Jab-Cross", sequence |-> <<JAB, JAB, CROSS>>,
        timing |-> <<500000, 700000>>],
       [name |-> "Quick-Jab-Cross", sequence |-> <<JAB, CROSS>>, timing |-> <<500000>>] >>

TieLibraries == {TIE_COMBOS, TIE_COMBOS_SWAPPED}

\* gaps of the histories matched against them: inside both constraints, inside
\* the wider one only, outside both
TieGaps == {400000, 700000, 700002}

\* the timestamp of punch number i of a history that starts at StartTime and
\* has gaps[j] between punch j and punch j + 1
RECURSIVE TimeAt(_, _)
TimeAt(gaps, i) == IF i = 1 THEN StartTime ELSE TimeAt(gaps, i - 1) + gaps[i - 1]

\* the history of the given punch types and gaps, oldest punch first
HistoryOf(types, gaps) == [i \in 1..Len(types) |-> <<types[i], TimeAt(gaps, i)>>]

(***************************************************************************)
(* One call of _classify_punch_type                                        *)
(***************************************************************************)
GridPoints == {<<x, y>> : x \in 0..MaxCoord, y \in 0..MaxCoord}

\* the dictionary with the four keypoints _classify_punch_type reads for `hand`
ArmKeypoints(hand, wrist, elbow, shoulder, opposite_shoulder) ==
    [n \in KeypointNames |->
        IF n = WristKey(hand) THEN wrist
        ELSE IF n = ElbowKey(hand) THEN elbow
        ELSE IF n = ShoulderKey(hand) THEN shoulder
        ELSE IF n = OppositeShoulderKey(hand) THEN opposite_shoulder
        ELSE None]

ClassifyCall ==
    /\ cls_pc = "idle"
    /\ cls_result' = ClassifyPunchType(cls_keypoints, cls_hand)
    /\ cls_pc' = "done"
    /\ UNCHANGED <<cls_keypoints, cls_hand>>
    /\ UNCHANGED <<trackerVars, comboVars, calVars, dmVars, appVars>>

(***************************************************************************)
(* PunchTracker (main.py)                                                  *)
(* process_frame reads punch_counter.punch_event_history, which the        *)
(* PunchCounter of utils/punch_counter.py does not keep; the history the   *)
(* main loop works on is filled as the specification says: each punch      *)
(* event is appended, the oldest entry leaving a full history.  An entry   *)
(* is <<punch_type, timestamp, coordinates>>, read by detect_combo as      *)
(* (punch_type, timestamp).                                                *)
(***************************************************************************)
\* self.combo_display_duration = 3.0 seconds
ComboDisplayDuration == 3000000

\* the punch events of one call appended to the punch event history
RECURSIVE HistoryWithEvents(_, _)
HistoryWithEvents(history, events) ==
    IF events = <<>> THEN history
    ELSE HistoryWithEvents(
             DequeAppend(history, <<events[1].type, events[1].time, events[1].coords>>,
                         EventHistoryMaxLen),
             Tail(events))

\* lines 144-145: the combo name detect_combo returns for the history, "None"
\* when the history is empty or nothing matches
DetectedComboName(history, combos) ==
    IF Len(history) > 0 THEN DetectCombo(history, combos) ELSE "None"

\* lines 147-149 with >= in the place of >
CountsComboAtDuration(name, current, last_time, current_time) ==
    /\ name # "None"
    /\ \/ current # name
       \/ current_time - last_time >= ComboDisplayDuration

\* lines 147-149: the detection is counted
CountsCombo(name, current, last_time, current_time) ==
    /\ name # "None"
    /\ \/ current # name
       \/ current_time - last_time > ComboDisplayDuration

\* lines 155-157 with the per-name count set to 1 instead of raised by 1
CountedStatsNameOnce(stats, name) ==
    [stats EXCEPT
        !.successes = @ + 1,
        !.detected_combos =
            [n \in DOMAIN @ \cup {name} |-> IF n \in DOMAIN @ /\ n # name THEN @[n]
                                           ELSE 1]]

\* lines 155-157
CountedStats(stats, name) ==
    [stats EXCEPT
        !.successes = @ + 1,
        !.detected_combos =
            [n \in DOMAIN @ \cup {name} |-> IF n \in DOMAIN @ THEN
                                               IF n = name THEN @[n] + 1 ELSE @[n]
                                           ELSE 1]]

\* process_frame without line 159
HistoryKeptAfterCombo(history, counted) == history

\* line 159: the history is cleared when the detection is counted
HistoryAfterCombo(history, counted) == IF counted THEN <<>> ELSE history

\* the wrist keypoints with their confidence, as the calibrator reads them
WithConfidence(hand_keypoints, confidence) ==
    [k \in WristKeys |->
        IF hand_keypoints[k] = None THEN None
        ELSE <<hand_keypoints[k][1], hand_keypoints[k][2], confidence>>]

\* lines 118-130 running punch detection although the application is paused
PausedBranchDetects(hand_keypoints, current_time) ==
    /\ DetectPunchesCore(hand_keypoints, current_time)
    /\ punch_event_history' =
          HistoryWithEvents(punch_event_history,
                            DetectedEvents(hand_keypoints, current_time))
    /\ UNCHANGED <<velocity_threshold, calibration_data>>
    /\ UNCHANGED <<calVars, comboVars>>
    /\ UNCHANGED <<is_paused, is_calibrating, current_detected_combo,
                   last_combo_detected_time, combo_stats, session_start_time,
                   counted_combos>>

\* lines 118-130: a paused frame is displayed and nothing else
PausedBranch(hand_keypoints, current_time) ==
    /\ UNCHANGED <<total_count, punch_counts, position_history, timestamp_history,
                   last_punch_time, velocity_threshold, calibration_data,
                   punch_event_history, frame_wrists, detected_punches, punch_log>>
    /\ UNCHANGED <<calVars, comboVars>>
    /\ UNCHANGED <<is_paused, is_calibrating, current_detected_combo,
                   last_combo_detected_time, combo_stats, session_start_time,
                   counted_combos>>

\* lines 132-141 with `if` in the place of the `else` of line 139: a frame in
\* calibration mode goes on to the normal processing
CalibratingBranchDetects(hand_keypoints, confidence, current_time) ==
    /\ ProcessCalibrationFrame(WithConfidence(hand_keypoints, confidence),
                               current_time)
    /\ is_calibrating' = ~AllStepsComplete(current_time)
    /\ calibration_data' =
          IF AllStepsComplete(current_time)
          THEN AppliedCalibration(calibration_data,
                                  ProcessCalibrationData(punch_velocities,
                                                         calibrator_data))
          ELSE calibration_data
    /\ DetectPunchesCore(hand_keypoints, current_time)
    /\ punch_event_history' =
          HistoryWithEvents(punch_event_history,
                            DetectedEvents(hand_keypoints, current_time))
    /\ UNCHANGED velocity_threshold
    /\ UNCHANGED comboVars
    /\ UNCHANGED <<is_paused, current_detected_combo, last_combo_detected_time,
                   combo_stats, session_start_time, counted_combos>>

\* lines 132-138: a frame in calibration mode
CalibratingBranch(hand_keypoints, confidence, current_time) ==
    /\ ProcessCalibrationFrame(WithConfidence(hand_keypoints, confidence),
                               current_time)
    /\ is_calibrating' = ~AllStepsComplete(current_time)
    /\ calibration_data' =
          IF AllStepsComplete(current_time)
          THEN AppliedCalibration(calibration_data,
                                  ProcessCalibrationData(punch_velocities,
                                                         calibrator_data))
          ELSE calibration_data
    /\ UNCHANGED <<total_count, punch_counts, position_history, timestamp_history,
                   last_punch_time, velocity_threshold, punch_event_history,
                   frame_wrists, detected_punches, punch_log>>
    /\ UNCHANGED comboVars
    /\ UNCHANGED <<is_paused, current_detected_combo, last_combo_detected_time,
                   combo_stats, session_start_time, counted_combos>>

\* lines 139-159: normal processing
NormalBranch(hand_keypoints, current_time) ==
    LET events == DetectedEvents(hand_keypoints, current_time)
        history == HistoryWithEvents(punch_event_history, events)
        name == DetectedComboName(history, predefined_combos)
        counted == CountsCombo(name, current_detected_combo,
                               last_combo_detected_time, current_time)
    IN /\ DetectPunchesCore(hand_keypoints, current_time)
       /\ punch_event_history' = HistoryAfterCombo(history, counted)
       /\ combo_result' = name
       /\ current_detected_combo' = IF counted THEN name ELSE current_detected_combo
       /\ last_combo_detected_time' =
             IF counted THEN current_time ELSE last_combo_detected_time
       /\ combo_stats' = IF counted THEN CountedStats(combo_stats, name)
                         ELSE combo_stats
       /\ counted_combos' =
             IF counted
             THEN Append(counted_combos,
                         [name |-> name, time |-> current_time,
                          session |-> session_start_time,
                          punches |-> Len(punch_log) + Len(events)])
             ELSE counted_combos
       /\ UNCHANGED <<velocity_threshold, calibration_data>>
       /\ UNCHANGED calVars
       /\ UNCHANGED <<predefined_combos, punch_history, combo_pc, combo_calls>>
       /\ UNCHANGED <<is_paused, is_calibrating, session_start_time>>

\* PunchTracker.process_frame on the next frame of the main loop, `step` after
\* the previous clock reading, in a behaviour of at most `limit` frames
ProcessFrameWithin(hand_keypoints, confidence, step, limit) ==
    /\ app_pc = "frame"
    /\ frames < limit
    /\ app_pc' = "key"
    /\ now' = now + step
    /\ frames' = frames + 1
    /\ UNCHANGED key_presses
    /\ IF is_paused THEN PausedBranch(hand_keypoints, now + step)
       ELSE IF is_calibrating
       THEN CalibratingBranch(hand_keypoints, confidence, now + step)
       ELSE NormalBranch(hand_keypoints, now + step)
    /\ UNCHANGED <<clsVars, dmVars>>

\* reset_counter emptying the punch event history with the counters
HistoryClearedByReset(history) == <<>>

\* PunchCounter.reset_counter: the punch event history is not among the fields
\* it assigns
HistoryAfterReset(history) == history

\* PunchTracker.start_session
StartSessionCall ==
    /\ session_start_time' = now
    /\ total_count' = 0
    /\ punch_counts' = ResetCounts(punch_counts)
    /\ current_detected_combo' = "None"
    /\ last_combo_detected_time' = 0
    /\ combo_stats' = [attempts |-> 0, successes |-> 0, detected_combos |-> <<>>]
    /\ current_session_id' = now \div Micro
    /\ punch_event_history' = HistoryAfterReset(punch_event_history)
    /\ UNCHANGED <<position_history, timestamp_history, last_punch_time,
                   velocity_threshold, calibration_data,
                   now, frames, frame_wrists, detected_punches, punch_log>>
    /\ UNCHANGED <<db_rows, backup_files, dm_message, dm_raised, saved_sessions,
                   backup_outcome, historical_data, history_limit, dm_pc>>
    /\ UNCHANGED <<is_paused, is_calibrating, counted_combos>>
    /\ UNCHANGED <<comboVars, clsVars, calVars>>

\* run() up to its loop: the session is started
RunStart ==
    /\ app_pc = "start"
    /\ app_pc' = "frame"
    /\ UNCHANGED key_presses
    /\ StartSessionCall

\* no key is down when the loop polls the keyboard
NoKey ==
    /\ app_pc = "key"
    /\ app_pc' = "frame"
    /\ UNCHANGED key_presses
    /\ UNCHANGED <<trackerVars, comboVars, clsVars, calVars, dmVars>>
    /\ UNCHANGED <<is_paused, is_calibrating, current_detected_combo,
                   last_combo_detected_time, combo_stats, session_start_time,
                   counted_combos>>

\* the loop finds a key down and goes on to the next frame
KeyPressed ==
    /\ app_pc = "key"
    /\ key_presses < MaxKeyPresses
    /\ app_pc' = "frame"
    /\ key_presses' = key_presses + 1

\* key 'r'
KeyStartSession ==
    /\ KeyPressed
    /\ StartSessionCall

\* key 'p'
KeyPause ==
    /\ KeyPressed
    /\ is_paused' = ~is_paused
    /\ UNCHANGED <<trackerVars, comboVars, clsVars, calVars, dmVars>>
    /\ UNCHANGED <<is_calibrating, current_detected_combo,
                   last_combo_detected_time, combo_stats, session_start_time,
                   counted_combos>>

\* key 'c': PunchTracker.start_calibration
KeyCalibrate ==
    /\ KeyPressed
    /\ is_calibrating' = TRUE
    /\ StartCalibrationAt(now)
    /\ UNCHANGED <<trackerVars, comboVars, clsVars, dmVars>>
    /\ UNCHANGED <<is_paused, current_detected_combo, last_combo_detected_time,
                   combo_stats, session_start_time, counted_combos>>

\* keys 'i' and 'k': the sensitivity moved by the default step
KeySensitivity ==
    /\ KeyPressed
    /\ \/ velocity_threshold' = RaisedSensitivity(velocity_threshold, DefaultStep)
       \/ velocity_threshold' = LoweredSensitivity(velocity_threshold, DefaultStep)
    /\ UNCHANGED <<total_count, punch_counts, position_history, timestamp_history,
                   last_punch_time, calibration_data, punch_event_history,
                   now, frames, frame_wrists, detected_punches, punch_log>>
    /\ UNCHANGED <<comboVars, clsVars, calVars, dmVars>>
    /\ UNCHANGED <<is_paused, is_calibrating, current_detected_combo,
                   last_combo_detected_time, combo_stats, session_start_time,
                   counted_combos>>

\* frames of the main loop, half a second apart: the hands apart, the hands
\* meeting, no wrist detected
AppPairs == { <<P2, P0>>, <<P1, P1>>, <<None, None>> }

AppFrame ==
    \E pair \in AppPairs :
        ProcessFrameWithin(HandKeypoints(pair[1], pair[2], GateStance), 10, 500000,
                           MaxAppFrames)

\* frames of the main loop with pauses between punches: the hands apart or
\* meeting, half a second or two and a half seconds after the frame before
WindowPairs == { <<P2, P0>>, <<P1, P1>> }

WindowSteps == {500000, 2500000}

WindowFrame ==
    \E pair \in WindowPairs, step \in WindowSteps :
        ProcessFrameWithin(HandKeypoints(pair[1], pair[2], GateStance), 10, step,
                           MaxWindowFrames)

\* frames of the main loop around a calibration run, both wrists at
\* confidence 0.5: the hands apart or meeting half a second after the frame
\* before, or the hands apart ten seconds after it
CalibrationAppInputs ==
    { <<P2, P0, 500000>>, <<P1, P1, 500000>>, <<P2, P0, 10 * Micro>> }

CalibrationAppFrame ==
    \E input \in CalibrationAppInputs :
        ProcessFrameWithin(HandKeypoints(input[1], input[2], GateStance), 5,
                           input[3], MaxCalibrationAppFrames)

\* a frame of the main loop in a behaviour with every key in use
KeyFrame ==
    \E pair \in AppPairs :
        ProcessFrameWithin(HandKeypoints(pair[1], pair[2], GateStance), 10, 500000,
                           MaxKeyFrames)

(***************************************************************************)
(* Initial states                                                          *)
(***************************************************************************)
\* PunchCounter.__init__
TrackerInit ==
    /\ total_count = 0
    /\ punch_counts = [t \in PunchTypes |-> 0]
    /\ position_history = [k \in WristKeys |-> <<>>]
    /\ timestamp_history = [k \in WristKeys |-> <<>>]
    /\ last_punch_time = [h \in Hands |-> 0]
    /\ velocity_threshold = InitialVelocityThreshold
    /\ calibration_data = [velocity_multiplier |-> Tenths(InitialVelocityMultiplier),
                           direction_adjust |-> 0]
    /\ punch_event_history = <<>>
    /\ now = StartTime
    /\ frames = 0
    /\ frame_wrists = [k \in WristKeys |-> None]
    /\ detected_punches = <<>>
    /\ punch_log = <<>>

ComboIdle ==
    /\ predefined_combos = <<>>
    /\ punch_history = <<>>
    /\ combo_result = "None"
    /\ combo_pc = "idle"
    /\ combo_calls = 0

ClsIdle ==
    /\ cls_keypoints = [n \in KeypointNames |-> None]
    /\ cls_hand = "left"
    /\ cls_result = "None"
    /\ cls_pc = "idle"

\* Calibrator.__init__
CalibratorInit ==
    /\ calibrator_is_calibrating = FALSE
    /\ calibration_stage = 0
    /\ step_start_time = None
    /\ punch_velocities = <<>>
    /\ calibrator_data = [velocity_multiplier |-> Tenths(10), direction_adjust |-> 0,
                          threshold_adjust |-> 0]
    /\ calibration_complete = FALSE
    /\ calibration_log = <<>>

\* DataManager.__init__ on an empty data directory
DataManagerInit ==
    /\ db_rows = <<>>
    /\ backup_files = {}
    /\ current_session_id = None
    /\ dm_message = "None"
    /\ dm_raised = "None"
    /\ saved_sessions = <<>>
    /\ backup_outcome = "None"
    /\ historical_data = <<>>
    /\ history_limit = 0
    /\ dm_pc = "idle"

\* PunchTracker.__init__: the combo state and the application flags
AppInit ==
    /\ is_paused = FALSE
    /\ is_calibrating = FALSE
    /\ current_detected_combo = "None"
    /\ last_combo_detected_time = 0
    /\ combo_stats = [attempts |-> 0, successes |-> 0, detected_combos |-> <<>>]
    /\ session_start_time = None
    /\ app_pc = "start"
    /\ key_presses = 0
    /\ counted_combos = <<>>

Init == TrackerInit /\ ComboIdle /\ ClsIdle /\ CalibratorInit /\ DataManagerInit /\ AppInit

Next == Frame

\* the tracker fed with frames
Spec == Init /\ [][Next]_vars

\* detect_combo applied to a punch history, the detector built from one of
\* `libraries`
ComboInitUpTo(libraries, maxlen, gapset) ==
    /\ TrackerInit
    /\ ClsIdle
    /\ CalibratorInit
    /\ DataManagerInit
    /\ AppInit
    /\ \E combos \in libraries : predefined_combos = ComboDetectorInit(combos)
    /\ \E n \in 0..maxlen :
          \E types \in [1..n -> PunchTypes], gaps \in [1..(n - 1) -> gapset] :
            punch_history = HistoryOf(types, gaps)
    /\ combo_result = "None"
    /\ combo_pc = "idle"
    /\ combo_calls = 0

ComboInitWith(libraries) == ComboInitUpTo(libraries, MaxHist, HistoryGaps)

ComboInit == ComboInitWith(Libraries)

ComboNext == DetectComboCall

SpecCombo == ComboInit /\ [][ComboNext]_vars

\* the same with any library, patterns of a single punch included
ComboAnyInit == ComboInitWith(AnyLibraries)

SpecComboAny == ComboAnyInit /\ [][ComboNext]_vars

\* detect_combo called again and again on one punch history
ComboCallsInit == ComboInitUpTo(Libraries, MaxCallHist, CallGaps)

ComboCallsNext == DetectComboCalls

SpecComboCalls == ComboCallsInit /\ [][ComboCallsNext]_vars

\* detect_combo of a detector built from a library with equally long patterns
ComboTieInit == ComboInitUpTo(TieLibraries, MaxCallHist, TieGaps)

SpecComboTie == ComboTieInit /\ [][ComboNext]_vars

\* _classify_punch_type applied to one arm
ClassifyInit ==
    /\ TrackerInit
    /\ ComboIdle
    /\ CalibratorInit
    /\ DataManagerInit
    /\ AppInit
    /\ cls_hand \in Hands
    /\ \E wrist \in GridPoints \cup {None}, elbow \in GridPoints \cup {None},
          shoulder \in GridPoints \cup {None}, opposite_shoulder \in {None, <<0, 0>>} :
            cls_keypoints = ArmKeypoints(cls_hand, wrist, elbow, shoulder,
                                         opposite_shoulder)
    /\ cls_result = "None"
    /\ cls_pc = "idle"

ClassifyNext == ClassifyCall

SpecClassify == ClassifyInit /\ [][ClassifyNext]_vars

\* the tracker fed with the gate frames
GateNext == GateFrame

SpecGate == Init /\ [][GateNext]_vars

\* the tracker with its runtime controls
ControlsNext ==
    \/ ControlFrame
    \/ ResetCounter
    \/ \E step \in SensitivitySteps : IncreaseSensitivity(step)
    \/ \E step \in SensitivitySteps : DecreaseSensitivity(step)
    \/ \E record \in CalibrationRecords : ApplyCalibration(record)

SpecControls == Init /\ [][ControlsNext]_vars

\* the calibrator run any number of times
CalibratorNext == StartCalibration \/ CalibrationFrame

SpecCalibrator == Init /\ [][CalibratorNext]_vars

\* the data manager saving and reading sessions
DataNext == SaveSessionData \/ GetHistoricalData

SpecData == Init /\ [][DataNext]_vars

\* PunchTracker.__init__ with the default combo library
AppSpecInit ==
    /\ TrackerInit
    /\ ClsIdle
    /\ CalibratorInit
    /\ DataManagerInit
    /\ AppInit
    /\ predefined_combos = ComboDetectorInit(DEFAULT_COMBOS)
    /\ punch_history = <<>>
    /\ combo_result = "None"
    /\ combo_pc = "idle"
    /\ combo_calls = 0

\* the main loop with the pause and restart keys
AppNext == RunStart \/ AppFrame \/ NoKey \/ KeyPause \/ KeyStartSession

SpecApp == AppSpecInit /\ [][AppNext]_vars

\* the main loop with pauses between punches and the restart key
AppWindowNext == RunStart \/ WindowFrame \/ NoKey \/ KeyStartSession

SpecAppWindow == AppSpecInit /\ [][AppWindowNext]_vars

\* the main loop with the calibration key
AppCalibrationNext == RunStart \/ CalibrationAppFrame \/ NoKey \/ KeyCalibrate

SpecAppCalibration == AppSpecInit /\ [][AppCalibrationNext]_vars

\* the main loop with every key
AppKeysNext ==
    \/ RunStart
    \/ KeyFrame
    \/ NoKey
    \/ KeyPause
    \/ KeyStartSession
    \/ KeyCalibrate
    \/ KeySensitivity

SpecAppKeys == AppSpecInit /\ [][AppKeysNext]_vars

\* the tracker fed with more frames than a position history holds
LongNext == LongFrame

SpecLong == Init /\ [][LongNext]_vars

(***************************************************************************)
(* Properties of the tracker (specification Spec)                          *)
(***************************************************************************)
\* C1: any two punch events emitted for the same hand are at least the cooldown
\* interval (0.5 s) apart in time, whatever frames are fed to detect_punches.
C1_CooldownBetweenPunches ==
    \A i, j \in 1..Len(punch_log) :
        (i < j /\ punch_log[i].hand = punch_log[j].hand)
            => punch_log[j].time - punch_log[i].time >= PunchCooldown

\* C1 witness: a hand whose forward motion went on from one wrist position to
\* the next has punched twice, exactly one cooldown interval apart.
C1_TwoPunchesOneCooldownApart ==
    \E i, j \in 1..Len(punch_log) :
        /\ i < j
        /\ punch_log[i].hand = punch_log[j].hand
        /\ punch_log[i].coords # punch_log[j].coords
        /\ punch_log[j].time - punch_log[i].time = PunchCooldown

\* C8: after a frame that detects a punch, the newest entry of the Punch Event
\* History is that punch, as (type, wrist coordinates, timestamp).
C8_NewestHistoryEntryIsPunch ==
    detected_punches # <<>> =>
        /\ punch_event_history # <<>>
        /\ Last(punch_event_history) =
              <<Last(detected_punches).type, Last(detected_punches).coords,
                Last(detected_punches).time>>

(***************************************************************************)
(* Properties of detect_combo (specifications SpecCombo, SpecComboAny)     *)
(***************************************************************************)
Patterns == 1..Len(predefined_combos)

\* the window of the last Len(combo.sequence) punches has the pattern's types
WindowHasTypes(history, combo) ==
    /\ Len(history) >= Len(combo.sequence)
    /\ \A k \in 1..Len(combo.sequence) :
          history[Len(history) - Len(combo.sequence) + k][1] = combo.sequence[k]

\* the gap between punch k and punch k + 1 of that window
WindowGap(history, combo, k) ==
    history[Len(history) - Len(combo.sequence) + k + 1][2]
        - history[Len(history) - Len(combo.sequence) + k][2]

\* every gap of the window is at most its constraint plus `slack`
GapsWithin(history, combo, slack) ==
    \A k \in 1..(Len(combo.sequence) - 1) :
        WindowGap(history, combo, k) <= combo.timing[k] + slack

\* the pattern validates: types in order, gaps within constraint plus tolerance
Validates(history, combo) ==
    WindowHasTypes(history, combo) /\ GapsWithin(history, combo, Epsilon)

\* pattern j is tried before pattern i: it is longer, or as long and listed first
TriedBefore(j, i) ==
    \/ Len(predefined_combos[j].sequence) > Len(predefined_combos[i].sequence)
    \/ /\ Len(predefined_combos[j].sequence) = Len(predefined_combos[i].sequence)
       /\ j < i

\* the detector main.py builds
DefaultDetector == ComboDetectorInit(DEFAULT_COMBOS)

\* C2 as stated: every pattern whose window has its types and whose gaps are at
\* most their constraints is the one detect_combo returns.
C2_EveryValidPatternReturned ==
    combo_pc = "done" =>
        \A i \in Patterns :
            (/\ WindowHasTypes(punch_history, predefined_combos[i])
             /\ GapsWithin(punch_history, predefined_combos[i], 0))
                => combo_result = predefined_combos[i].name

\* C2 amended: such a pattern is the one returned unless a pattern tried before
\* it (a longer one, or an equally long one listed first) validates too; then
\* the name returned is that of a pattern tried before it.
C2_ValidPatternReturnedUnlessEarlierOne ==
    combo_pc = "done" =>
        \A i \in Patterns :
            (/\ WindowHasTypes(punch_history, predefined_combos[i])
             /\ GapsWithin(punch_history, predefined_combos[i], 0))
                => IF \E j \in Patterns :
                        TriedBefore(j, i) /\ Validates(punch_history, predefined_combos[j])
                   THEN \E j \in Patterns :
                        /\ TriedBefore(j, i)
                        /\ Validates(punch_history, predefined_combos[j])
                        /\ combo_result = predefined_combos[j].name
                   ELSE combo_result = predefined_combos[i].name

\* C2 witness: a pattern with a gap exactly equal to its constraint was returned.
C2_ReturnedAtExactBoundary ==
    /\ combo_pc = "done"
    /\ \E i \in Patterns :
          /\ WindowHasTypes(punch_history, predefined_combos[i])
          /\ GapsWithin(punch_history, predefined_combos[i], 0)
          /\ \E k \in 1..(Len(predefined_combos[i].sequence) - 1) :
                WindowGap(punch_history, predefined_combos[i], k)
                    = predefined_combos[i].timing[k]
          /\ combo_result = predefined_combos[i].name

\* C3: a pattern whose window has its types but one of whose gaps exceeds the
\* constraint by more than the tolerance is never returned, and None is returned
\* when no other pattern validates; jab then cross 1.0 s or 0.701 s apart is None.
C3_TooSlowPatternNotReturned ==
    /\ DetectCombo(<<<<JAB, StartTime>>, <<CROSS, StartTime + 1000000>>>>,
                   DefaultDetector) = "None"
    /\ DetectCombo(<<<<JAB, StartTime>>, <<CROSS, StartTime + 701000>>>>,
                   DefaultDetector) = "None"
    /\ combo_pc = "done" =>
        \A i \in Patterns :
            (/\ WindowHasTypes(punch_history, predefined_combos[i])
             /\ ~GapsWithin(punch_history, predefined_combos[i], Epsilon))
                => /\ combo_result # predefined_combos[i].name
                   /\ (\A j \in Patterns \ {i} :
                          ~Validates(punch_history, predefined_combos[j]))
                        => combo_result = "None"

\* C3 witness: the window has a pattern's types, a gap is just past the
\* tolerance, and None was returned.
C3_JustPastToleranceIsNone ==
    /\ combo_pc = "done"
    /\ combo_result = "None"
    /\ \E i \in Patterns :
          /\ WindowHasTypes(punch_history, predefined_combos[i])
          /\ \E k \in 1..(Len(predefined_combos[i].sequence) - 1) :
                WindowGap(punch_history, predefined_combos[i], k)
                    = predefined_combos[i].timing[k] + Epsilon + 1

\* C4: when two patterns of different lengths both validate, the shorter one is
\* not returned and the name returned is that of a validating pattern at least
\* as long as the longer one; jab@0.0, jab@0.4, cross@0.8 is Jab-Jab-Cross.
C4_LongerPatternWins ==
    /\ DetectCombo(<<<<JAB, StartTime>>, <<JAB, StartTime + 400000>>,
                     <<CROSS, StartTime + 800000>>>>, DefaultDetector) = "Jab-Jab-Cross"
    /\ combo_pc = "done" =>
        \A i, j \in Patterns :
            (/\ Len(predefined_combos[i].sequence) > Len(predefined_combos[j].sequence)
             /\ Validates(punch_history, predefined_combos[i])
             /\ Validates(punch_history, predefined_combos[j]))
                => /\ combo_result # predefined_combos[j].name
                   /\ \E k \in Patterns :
                        /\ Validates(punch_history, predefined_combos[k])
                        /\ Len(predefined_combos[k].sequence)
                              >= Len(predefined_combos[i].sequence)
                        /\ combo_result = predefined_combos[k].name

\* C4 witness: a longer and a shorter pattern both validate and the longer one
\* was returned.
C4_BothValidateLongerReturned ==
    /\ combo_pc = "done"
    /\ \E i, j \in Patterns :
          /\ Len(predefined_combos[i].sequence) > Len(predefined_combos[j].sequence)
          /\ Validates(punch_history, predefined_combos[i])
          /\ Validates(punch_history, predefined_combos[j])
          /\ combo_result = predefined_combos[i].name

\* C5: when a longer pattern has its types in the window but fails a timing
\* constraint and a shorter pattern validates on its own window, the shorter
\* pattern's name is returned; jab@0.0, jab@0.7, cross@1.0 is Jab-Cross, and
\* jab, jab 0.2 s later, cross 0.8 s later is None.
C5_ShorterPatternSurvivesLongerFailure ==
    /\ DetectCombo(<<<<JAB, StartTime>>, <<JAB, StartTime + 700000>>,
                     <<CROSS, StartTime + 1000000>>>>, DefaultDetector) = "Jab-Cross"
    /\ DetectCombo(<<<<JAB, StartTime>>, <<JAB, StartTime + 200000>>,
                     <<CROSS, StartTime + 1000000>>>>, DefaultDetector) = "None"
    /\ combo_pc = "done" =>
        \A i, j \in Patterns :
            (/\ Len(predefined_combos[i].sequence) > Len(predefined_combos[j].sequence)
             /\ WindowHasTypes(punch_history, predefined_combos[i])
             /\ ~GapsWithin(punch_history, predefined_combos[i], Epsilon)
             /\ Validates(punch_history, predefined_combos[j]))
                => combo_result = predefined_combos[j].name

\* C5 witness: the longer pattern failed on timing alone and the shorter one was
\* returned.
C5_LongerFailedShorterReturned ==
    /\ combo_pc = "done"
    /\ \E i, j \in Patterns :
          /\ Len(predefined_combos[i].sequence) > Len(predefined_combos[j].sequence)
          /\ WindowHasTypes(punch_history, predefined_combos[i])
          /\ ~GapsWithin(punch_history, predefined_combos[i], Epsilon)
          /\ Validates(punch_history, predefined_combos[j])
          /\ combo_result = predefined_combos[j].name

\* C6: for a history of fewer than 2 punches detect_combo returns None, whatever
\* the library.
C6_ShortHistoryIsNone ==
    (combo_pc = "done" /\ Len(punch_history) < 2) => combo_result = "None"

\* C6 witness: a single punch that is, by itself, a pattern of the library.
C6_SinglePunchMatchingAPattern ==
    /\ combo_pc = "done"
    /\ Len(punch_history) = 1
    /\ \E i \in Patterns : Validates(punch_history, predefined_combos[i])

\* C7: a name is returned only when a pattern of that name validates, and None
\* is returned when no pattern validates; jab then hook 0.4 s later is None.
C7_ReturnedOnlyIfValidates ==
    /\ DetectCombo(<<<<JAB, StartTime>>, <<HOOK, StartTime + 400000>>>>,
                   DefaultDetector) = "None"
    /\ combo_pc = "done" =>
        /\ combo_result # "None" =>
              \E i \in Patterns :
                  /\ predefined_combos[i].name = combo_result
                  /\ Validates(punch_history, predefined_combos[i])
        /\ (\A i \in Patterns : ~Validates(punch_history, predefined_combos[i]))
              => combo_result = "None"

\* C7 witness: a pattern's first punch and timing are right, a later punch has
\* the wrong type, and None was returned.
C7_WrongTypeIsNone ==
    /\ combo_pc = "done"
    /\ combo_result = "None"
    /\ \E i \in Patterns :
          /\ Len(punch_history) >= Len(predefined_combos[i].sequence)
          /\ GapsWithin(punch_history, predefined_combos[i], 0)
          /\ punch_history[Len(punch_history)
                           - Len(predefined_combos[i].sequence) + 1][1]
                = predefined_combos[i].sequence[1]
          /\ ~WindowHasTypes(punch_history, predefined_combos[i])

(***************************************************************************)
(* Properties of _classify_punch_type (specification SpecClassify)         *)
(***************************************************************************)
ArmWrist == cls_keypoints[WristKey(cls_hand)]
ArmElbow == cls_keypoints[ElbowKey(cls_hand)]
ArmShoulder == cls_keypoints[ShoulderKey(cls_hand)]
ArmOppositeShoulder == cls_keypoints[OppositeShoulderKey(cls_hand)]

AllFourPresent ==
    /\ ArmWrist # None
    /\ ArmElbow # None
    /\ ArmShoulder # None
    /\ ArmOppositeShoulder # None

\* the wrist is above the elbow: smaller vertical pixel coordinate
WristAboveElbow == ArmWrist[2] < ArmElbow[2]

\* the wrist is horizontally outside the own shoulder
WristOutsideShoulder ==
    IF cls_hand = "left" THEN ArmWrist[1] < ArmShoulder[1]
    ELSE ArmWrist[1] > ArmShoulder[1]

\* elbow-to-shoulder distance + wrist-to-elbow distance is zero
ZeroArmLength == ArmElbow = ArmShoulder /\ ArmWrist = ArmElbow

\* the extension ratio is above 0.8
ArmExtended ==
    IsExtended(Dist2(ArmWrist, ArmShoulder), Dist2(ArmElbow, ArmShoulder),
               Dist2(ArmWrist, ArmElbow))

\* C9: classification yields one of jab, cross, hook, uppercut for every input,
\* and the per-hand default (right: cross, left: jab) when any of the four
\* keypoints is absent.
C9_ClassificationTotalWithFallback ==
    cls_pc = "done" =>
        /\ cls_result \in PunchTypes
        /\ ~AllFourPresent => cls_result = (IF cls_hand = "right" THEN CROSS ELSE JAB)

\* C9 witness: only the opposite shoulder is absent and the right hand got cross.
C9_RightFallbackIsCross ==
    /\ cls_pc = "done"
    /\ cls_hand = "right"
    /\ ArmWrist # None /\ ArmElbow # None /\ ArmShoulder # None
    /\ ArmOppositeShoulder = None
    /\ cls_result = CROSS

\* C10: with the four keypoints present the result is the ordered rule:
\* uppercut if wrist above elbow and extended; else hook if wrist outside the
\* shoulder and not extended; else cross if right hand and extended; else jab.
\* A zero arm length is not extended.  The first two inputs are those of
\* tests/test_punch_counter.py, in tenths; in the third the ratio is exactly
\* 0.8 (8 / (5 + 5)), which is not extended.
C10_OrderedDecisionRule ==
    /\ ClassifyPunchType(ArmKeypoints("right", <<11, 0>>, <<5, 0>>, <<0, 0>>, <<-2, 0>>),
                         "right") = CROSS
    /\ ClassifyPunchType(ArmKeypoints("left", <<0, -11>>, <<0, -5>>, <<0, 0>>, <<5, 0>>),
                         "left") = UPPERCUT
    /\ ClassifyPunchType(ArmKeypoints("right", <<8, 0>>, <<4, 3>>, <<0, 0>>, <<-2, 0>>),
                         "right") = HOOK
    /\ (cls_pc = "done" /\ AllFourPresent) =>
        /\ cls_result = UPPERCUT <=> (WristAboveElbow /\ ArmExtended)
        /\ cls_result = HOOK <=>
              (~(WristAboveElbow /\ ArmExtended) /\ WristOutsideShoulder /\ ~ArmExtended)
        /\ cls_result = CROSS <=>
              (~WristAboveElbow /\ cls_hand = "right" /\ ArmExtended)
        /\ cls_result = JAB <=>
              (/\ ~(WristAboveElbow /\ ArmExtended)
               /\ ~(WristOutsideShoulder /\ ~ArmExtended)
               /\ ~(cls_hand = "right" /\ ArmExtended))
        /\ ZeroArmLength => (~ArmExtended /\ cls_result = JAB)

\* C10 witness: a right arm that is extended with the wrist above the elbow is
\* an uppercut, not a cross.
C10_UppercutBeforeCross ==
    /\ cls_pc = "done"
    /\ AllFourPresent
    /\ cls_hand = "right"
    /\ WristAboveElbow
    /\ ArmExtended
    /\ cls_result = UPPERCUT

(***************************************************************************)
(* Properties of the punch gate (specification SpecGate)                   *)
(***************************************************************************)
\* the step is one call of detect_punches
IsFrameStep == frames' = frames + 1

\* the call returned a punch for `hand`
Emitted(events, hand) == \E i \in 1..Len(events) : events[i].hand = hand

\* the two newest samples exist and are not simultaneous
TwoSamplesApart(positions, timestamps) ==
    /\ Len(positions) >= 2
    /\ Len(timestamps) >= 2
    /\ timestamps[Len(timestamps)] # timestamps[Len(timestamps) - 1]

NewestDx(positions) == positions[Len(positions)][1] - positions[Len(positions) - 1][1]
NewestDy(positions) == positions[Len(positions)][2] - positions[Len(positions) - 1][2]
NewestDt(timestamps) == timestamps[Len(timestamps)] - timestamps[Len(timestamps) - 1]

\* displacement in pixels between the two newest samples
NewestDisplacement(positions) ==
    Sqrt(NewestDx(positions) * NewestDx(positions)
            + NewestDy(positions) * NewestDy(positions))

\* gate 1: displacement / seconds * multiplier >= threshold, in integers
\* (displacement * Micro * multiplier.num >= threshold * dt * multiplier.den)
VelocityGate(positions, timestamps, multiplier, threshold) ==
    /\ TwoSamplesApart(positions, timestamps)
    /\ NewestDisplacement(positions) * Micro * multiplier.num
            >= threshold * NewestDt(timestamps) * multiplier.den

\* the same with equality
VelocityAtThreshold(positions, timestamps, multiplier, threshold) ==
    /\ TwoSamplesApart(positions, timestamps)
    /\ NewestDisplacement(positions) * Micro * multiplier.num
            = threshold * NewestDt(timestamps) * multiplier.den

\* gate 2: the direction is defined and points forward for `hand`
DirectionGate(positions, timestamps, hand) ==
    /\ TwoSamplesApart(positions, timestamps)
    /\ NewestDisplacement(positions) > 0
    /\ IF hand = "left" THEN NewestDx(positions) < 0 ELSE NewestDx(positions) > 0

\* gate 3: the cooldown has elapsed since the hand's last accepted punch
CooldownGate(current_time, last_time) == current_time - last_time >= PunchCooldown

\* C11: a call of detect_punches returns a punch for a hand if and only if the
\* hand's calibrated velocity is at least the threshold (equality included),
\* its direction is defined and forward (x < 0 left, x > 0 right), and at
\* least 0.5 s have passed since that hand's last accepted punch.
C11_PunchIffAllGatesHold ==
    [][IsFrameStep =>
        \A h \in Hands :
            Emitted(detected_punches', h) <=>
                /\ VelocityGate(position_history'[WristKey(h)],
                                timestamp_history'[WristKey(h)],
                                calibration_data.velocity_multiplier,
                                velocity_threshold)
                /\ DirectionGate(position_history'[WristKey(h)],
                                 timestamp_history'[WristKey(h)], h)
                /\ CooldownGate(now', last_punch_time[h])]_vars

\* C11 witness: a hand's second punch was returned for a forward motion at
\* exactly the threshold velocity.
C11_PunchAtExactThreshold ==
    \E h \in Hands :
        /\ Emitted(detected_punches, h)
        /\ VelocityAtThreshold(position_history[WristKey(h)],
                               timestamp_history[WristKey(h)],
                               calibration_data.velocity_multiplier,
                               velocity_threshold)
        /\ Len(SelectSeq(punch_log, LAMBDA e : e.hand = h)) >= 2

(***************************************************************************)
(* Properties of the counters and the sensitivity (specification           *)
(* SpecControls)                                                           *)
(***************************************************************************)
SumOfCounts(counts) == counts[JAB] + counts[CROSS] + counts[HOOK] + counts[UPPERCUT]

\* C12: total_count is always the sum of the four per-type counters, through
\* detect_punches and reset_counter; a call that detects one punch raises that
\* punch's type counter and the total by one and leaves the other three alone,
\* and a call that detects two raises the total by two.
C12_TotalIsSumOfTypeCounts ==
    /\ [](total_count = SumOfCounts(punch_counts))
    /\ [][IsFrameStep =>
            /\ total_count' = total_count + Len(detected_punches')
            /\ Len(detected_punches') = 1 =>
                  \A t \in PunchTypes :
                      punch_counts'[t] =
                          IF t = detected_punches'[1].type
                          THEN punch_counts[t] + 1 ELSE punch_counts[t]
            /\ \A t \in PunchTypes : punch_counts'[t] >= punch_counts[t]]_vars

\* C12 witness: punches were counted, the counters were reset, and a punch
\* detected afterwards is the only one counted.
C12_CountedAgainAfterReset ==
    /\ Len(punch_log) >= 3
    /\ Len(detected_punches) = 1
    /\ total_count = 1
    /\ punch_counts[detected_punches[1].type] = 1

OtherHand(hand) == IF hand = "left" THEN "right" ELSE "left"

\* the hand has fewer than two stored samples, or its two newest samples carry
\* the same timestamp
NoUsableSamples(positions, timestamps) ==
    \/ Len(positions) < 2
    \/ timestamps[Len(timestamps)] = timestamps[Len(timestamps) - 1]

\* C13: when, in a call of detect_punches, a hand has fewer than two stored
\* samples or its two newest samples have identical timestamps, its velocity is
\* 0 with undefined direction, no punch is returned for that hand, the hand's
\* last-punch time stays, and the counters move only by the other hand's punch.
C13_NoVelocityWithoutTwoDistinctSamples ==
    [][IsFrameStep =>
        \A h \in Hands :
            NoUsableSamples(position_history'[WristKey(h)],
                            timestamp_history'[WristKey(h)]) =>
                /\ CalculateVelocity(position_history'[WristKey(h)],
                                     timestamp_history'[WristKey(h)],
                                     calibration_data).num = 0
                /\ CalculateVelocity(position_history'[WristKey(h)],
                                     timestamp_history'[WristKey(h)],
                                     calibration_data).direction = None
                /\ ~Emitted(detected_punches', h)
                /\ last_punch_time'[h] = last_punch_time[h]
                /\ total_count' = total_count
                        + (IF Emitted(detected_punches', OtherHand(h)) THEN 1 ELSE 0)
                /\ Len(detected_punches') <= 1
                /\ (detected_punches' = <<>>) => punch_counts' = punch_counts]_vars

\* C13 witness: the left wrist moved forward between two frames with the same
\* clock reading, past the cooldown, and no punch was returned for it.
C13_SameTimestampNoPunch ==
    /\ frame_wrists["left_wrist"] # None
    /\ Len(position_history["left_wrist"]) >= 2
    /\ NewestDt(timestamp_history["left_wrist"]) = 0
    /\ NewestDx(position_history["left_wrist"]) < 0
    /\ CooldownGate(now, last_punch_time["left"])
    /\ ~Emitted(detected_punches, "left")

\* number of punches the call returned for `hand`
EmittedCount(events, hand) == Len(SelectSeq(events, LAMBDA e : e.hand = hand))

\* C17: one call of detect_punches returns zero, one or two punches, at most
\* one for the left hand and at most one for the right hand, and total_count
\* grows by exactly the number of punches returned.
C17_AtMostOnePunchPerHandPerCall ==
    /\ [](/\ Len(detected_punches) <= 2
          /\ \A h \in Hands : EmittedCount(detected_punches, h) <= 1
          /\ \A i \in 1..Len(detected_punches) : detected_punches[i].hand \in Hands)
    /\ [][IsFrameStep => total_count' = total_count + Len(detected_punches')]_vars

\* C17 witness: a call returned a punch for each hand, after a call that
\* returned one punch only.
C17_BothHandsPunchInOneCall ==
    /\ Len(detected_punches) = 2
    /\ detected_punches[1].hand = "left"
    /\ detected_punches[2].hand = "right"
    /\ total_count = 3

(***************************************************************************)
(* Properties of the position histories (specification SpecLong)           *)
(***************************************************************************)
\* C15: each hand's position history holds at most 10 positions and exactly as
\* many timestamps; a sample stored into a full history evicts the oldest
\* position and the oldest timestamp together, and the entries that remain
\* keep their arrival order.
C15_HistoryBoundedAndEvictsOldest ==
    /\ [](\A k \in WristKeys :
            /\ Len(position_history[k]) <= HistoryMaxLen
            /\ Len(timestamp_history[k]) = Len(position_history[k]))
    /\ [][(IsFrameStep) =>
            \A k \in WristKeys :
                (frame_wrists'[k] # None /\ Len(position_history[k]) = HistoryMaxLen) =>
                    /\ Len(position_history'[k]) = HistoryMaxLen
                    /\ \A i \in 1..(HistoryMaxLen - 1) :
                          /\ position_history'[k][i] = position_history[k][i + 1]
                          /\ timestamp_history'[k][i] = timestamp_history[k][i + 1]
                    /\ position_history'[k][HistoryMaxLen] = frame_wrists'[k]
                    /\ timestamp_history'[k][HistoryMaxLen] = now']_vars

\* C15 witness: both histories are full, have evicted, and the left one holds
\* different positions.
C15_FullHistoryAfterEviction ==
    /\ Len(position_history["left_wrist"]) = HistoryMaxLen
    /\ Len(position_history["right_wrist"]) = HistoryMaxLen
    /\ timestamp_history["left_wrist"][1] > StartTime + 250000
    /\ timestamp_history["right_wrist"][1] > StartTime + 250000
    /\ \E i, j \in 1..HistoryMaxLen :
          position_history["left_wrist"][i] # position_history["left_wrist"][j]

\* C16: a call of detect_punches stores one (position, timestamp) sample for a
\* hand exactly when that hand's wrist keypoint is present in the frame; with
\* the wrist absent the hand's positions and timestamps stay as they were,
\* whatever the other hand's keypoint is.
C16_SampleStoredIffWristPresent ==
    [][IsFrameStep =>
        \A k \in WristKeys :
            IF frame_wrists'[k] # None
            THEN /\ Len(position_history'[k]) =
                        (IF Len(position_history[k]) < HistoryMaxLen
                         THEN Len(position_history[k]) + 1 ELSE HistoryMaxLen)
                 /\ Last(position_history'[k]) = frame_wrists'[k]
                 /\ Last(timestamp_history'[k]) = now'
                 /\ Len(position_history[k]) < HistoryMaxLen =>
                        /\ SubSeq(position_history'[k], 1, Len(position_history[k]))
                                = position_history[k]
                        /\ SubSeq(timestamp_history'[k], 1, Len(timestamp_history[k]))
                                = timestamp_history[k]
            ELSE /\ position_history'[k] = position_history[k]
                 /\ timestamp_history'[k] = timestamp_history[k]]_vars

\* C16 witness: the last frame had the left wrist and not the right one; the
\* left history has its sample and the right history, not empty, ends earlier.
C16_OnlyLeftWristStored ==
    /\ frame_wrists["left_wrist"] # None
    /\ frame_wrists["right_wrist"] = None
    /\ Last(timestamp_history["left_wrist"]) = now
    /\ timestamp_history["right_wrist"] # <<>>
    /\ Last(timestamp_history["right_wrist"]) < now

(***************************************************************************)
(* Properties of detect_combo called repeatedly (specification             *)
(* SpecComboCalls)                                                         *)
(***************************************************************************)
\* punch histories of zero, one or two punches that end before `time`
OlderPunches(time) ==
    {<<>>}
    \cup { << <<t, time - g>> >> : t \in PunchTypes, g \in CallGaps }
    \cup { << <<t[1], time - 800000>>, <<t[2], time - 400000>> >> :
             t \in PunchTypes \X PunchTypes }

\* C18: for a history at least as long as the longest pattern, the result of
\* detect_combo is that of any history with the same most recent punches, as
\* many as the longest pattern has, whatever older punches precede them; so
\* uppercut, hook, jab, cross with a valid jab-cross at the end gives Jab-Cross.
C18_OlderPunchesAreIgnored ==
    /\ DetectCombo(HistoryOf(<<UPPERCUT, HOOK, JAB, CROSS>>, <<400000, 400000, 400000>>),
                   DefaultDetector) = "Jab-Cross"
    /\ (combo_calls > 0 /\ Len(punch_history) >= MaxSeqLen(predefined_combos)) =>
          LET window == Trailing(punch_history, MaxSeqLen(predefined_combos))
          IN \A older \in OlderPunches(window[1][2]) :
                DetectCombo(older \o window, predefined_combos) = combo_result

\* C18 witness: uppercut, hook, jab, cross was handed to the default detector,
\* which returned Jab-Cross.
C18_JabCrossAfterOlderPunches ==
    /\ combo_calls > 0
    /\ predefined_combos = DefaultDetector
    /\ Len(punch_history) = 4
    /\ punch_history[1][1] = UPPERCUT
    /\ punch_history[2][1] = HOOK
    /\ combo_result = "Jab-Cross"

TieValidates(library, i, j, history) ==
    /\ i < j
    /\ Len(library[i].sequence) = Len(library[j].sequence)
    /\ Validates(history, library[i])
    /\ Validates(history, library[j])

\* pattern k of the supplied library is tried before pattern i
SuppliedTriedBefore(library, k, i) ==
    \/ Len(library[k].sequence) > Len(library[i].sequence)
    \/ Len(library[k].sequence) = Len(library[i].sequence) /\ k < i

\* C19 as stated: whenever two equally long patterns both validate on the
\* history, detect_combo returns the name of the one supplied first.
C19_FirstSuppliedOfTieReturned ==
    combo_calls > 0 =>
        \A library \in TieLibraries :
            predefined_combos = ComboDetectorInit(library) =>
                \A i, j \in 1..Len(library) :
                    TieValidates(library, i, j, punch_history)
                        => combo_result = library[i].name

\* C19 amended: patterns are tried longest first, equally long ones in the
\* order supplied; when two equally long patterns both validate, the one
\* supplied later is never returned, and the one supplied first is returned
\* unless a pattern tried before it validates too, whose name is then returned.
C19_FirstSuppliedUnlessEarlierTried ==
    combo_calls > 0 =>
        \A library \in TieLibraries :
            predefined_combos = ComboDetectorInit(library) =>
                \A i, j \in 1..Len(library) :
                    TieValidates(library, i, j, punch_history) =>
                        /\ combo_result # library[j].name
                        /\ IF \E k \in 1..Len(library) :
                                /\ SuppliedTriedBefore(library, k, i)
                                /\ Validates(punch_history, library[k])
                           THEN \E k \in 1..Len(library) :
                                /\ SuppliedTriedBefore(library, k, i)
                                /\ Validates(punch_history, library[k])
                                /\ combo_result = library[k].name
                           ELSE combo_result = library[i].name

\* C19 witness: of two equally long patterns that both validate, the one
\* supplied first was returned, a longer pattern having been supplied between
\* the two.
C19_TieWonByFirstSupplied ==
    /\ combo_calls > 0
    /\ predefined_combos = ComboDetectorInit(TIE_COMBOS_SWAPPED)
    /\ TieValidates(TIE_COMBOS_SWAPPED, 1, 3, punch_history)
    /\ combo_result = TIE_COMBOS_SWAPPED[1].name

\* C21: reset_counter sets total_count and the four per-type counters to zero
\* and changes nothing else: a step outside detect_punches that changes a
\* counter leaves all five at zero and the position histories, timestamps,
\* last-punch times, sensitivity threshold and calibration adjustment as they
\* were.
C21_ResetTouchesCountersOnly ==
    [][(~IsFrameStep /\ <<total_count, punch_counts>>' # <<total_count, punch_counts>>) =>
        /\ total_count' = 0
        /\ \A t \in PunchTypes : punch_counts'[t] = 0
        /\ DOMAIN punch_counts' = PunchTypes
        /\ UNCHANGED <<position_history, timestamp_history, last_punch_time,
                       velocity_threshold, calibration_data>>]_vars

\* C21 witness: the counters are back at zero after punches of two types were
\* counted, with the histories, a last-punch time, a changed threshold and an
\* applied calibration still in place.
C21_CountersZeroRestKept ==
    /\ total_count = 0
    /\ \E i, j \in 1..Len(punch_log) : punch_log[i].type # punch_log[j].type
    /\ detected_punches # <<>>
    /\ Len(position_history["left_wrist"]) >= 2
    /\ last_punch_time["left"] > 0
    /\ velocity_threshold # InitialVelocityThreshold
    /\ calibration_data.velocity_multiplier # Tenths(InitialVelocityMultiplier)

\* the calibration adjustment PunchCounter.__init__ sets
InitialCalibration ==
    [velocity_multiplier |-> Tenths(InitialVelocityMultiplier), direction_adjust |-> 0]

\* C22: apply_calibration replaces the calibration adjustment as a whole, no
\* old field surviving, and changes no other tracker state; the multiplier is
\* 1.0 until then, and every call of detect_punches gates a hand on the raw
\* displacement over time multiplied by the multiplier then in force.
C22_CalibrationReplacedWhole ==
    /\ calibration_data = InitialCalibration
    /\ [][calibration_data' # calibration_data =>
            /\ calibration_data' \in CalibrationRecords
            /\ UNCHANGED <<total_count, punch_counts, position_history,
                           timestamp_history, last_punch_time, velocity_threshold,
                           punch_event_history>>]_vars
    /\ [][IsFrameStep =>
            /\ calibration_data' = calibration_data
            /\ \A h \in Hands :
                  Emitted(detected_punches', h) <=>
                      /\ VelocityGate(position_history'[WristKey(h)],
                                      timestamp_history'[WristKey(h)],
                                      calibration_data.velocity_multiplier,
                                      velocity_threshold)
                      /\ DirectionGate(position_history'[WristKey(h)],
                                       timestamp_history'[WristKey(h)], h)
                      /\ CooldownGate(now', last_punch_time[h])]_vars

\* C22 witness: a record with a multiplier of 0.5 and no other field is in
\* force, and a hand that moved forward at 50 px/s, past the cooldown and with
\* the threshold at 50, got no punch.
C22_HalvedVelocityBelowThreshold ==
    /\ calibration_data = [velocity_multiplier |-> Tenths(5)]
    /\ velocity_threshold = InitialVelocityThreshold
    /\ frame_wrists["left_wrist"] # None
    /\ TwoSamplesApart(position_history["left_wrist"], timestamp_history["left_wrist"])
    /\ VelocityAtThreshold(position_history["left_wrist"],
                           timestamp_history["left_wrist"],
                           Tenths(InitialVelocityMultiplier), velocity_threshold)
    /\ DirectionGate(position_history["left_wrist"], timestamp_history["left_wrist"],
                     "left")
    /\ Last(timestamp_history["left_wrist"]) = now
    /\ total_count = 0
    /\ punch_log = <<>>

(***************************************************************************)
(* Calibrator                                                              *)
(***************************************************************************)
\* Calibrator.get_calibration_data: what the calibrator hands to the tracker
GetCalibrationData == calibrator_data

\* C23: the velocity multiplier the calibrator hands to the tracker is at least
\* 0.5 and at most 2.0 at any time, after any number of calibration runs,
\* whether or not a run collected wrist data
C23_MultiplierWithinCaps ==
    /\ ~FractionLess(GetCalibrationData.velocity_multiplier, Tenths(5))
    /\ ~FractionLess(Tenths(20), GetCalibrationData.velocity_multiplier)

\* C23 witness: a run whose samples average 0.5 left the multiplier at the cap
\* of 2.0, and a later run that collected no wrist data has completed
C23_RunWithoutDataAfterCappedRun ==
    /\ Len(calibration_log) = 2
    /\ calibration_log[1].samples > 0
    /\ calibration_log[1].multiplier = Tenths(20)
    /\ calibration_log[2].samples = 0
    /\ GetCalibrationData.velocity_multiplier = Tenths(20)
    /\ ~calibrator_is_calibrating

(***************************************************************************)
(* Absent wrists and the last-punch time                                   *)
(***************************************************************************)
\* C27: in a frame where a hand's wrist keypoint is absent, detect_punches
\* returns no punch for that hand and leaves that hand's last-punch time as it
\* was, whatever samples its position history holds; a frame with both wrists
\* absent leaves the counters as they were
C27_AbsentWristNoPunch ==
    [][IsFrameStep =>
        /\ \A h \in Hands :
              frame_wrists'[WristKey(h)] = None =>
                  /\ ~Emitted(detected_punches', h)
                  /\ last_punch_time'[h] = last_punch_time[h]
        /\ (\A k \in WristKeys : frame_wrists'[k] = None) =>
              /\ total_count' = total_count
              /\ punch_counts' = punch_counts]_vars

\* C28: a hand's last-punch time changes only in a frame in which the gate
\* accepts that hand's motion; it then becomes the clock reading of that frame
\* and exactly one punch event of that hand is returned and counted; it never
\* decreases, and it is unchanged when the hand's motion is rejected, also when
\* the other hand punches in the same frame
C28_LastPunchTimeFollowsAcceptance ==
    [][IsFrameStep =>
        /\ \A h \in Hands :
              /\ last_punch_time'[h] >= last_punch_time[h]
              /\ last_punch_time'[h] # last_punch_time[h] =>
                    /\ last_punch_time'[h] = now'
                    /\ EmittedCount(detected_punches', h) = 1
              /\ Emitted(detected_punches', h) => last_punch_time'[h] = now'
              /\ ~Emitted(detected_punches', h) =>
                    last_punch_time'[h] = last_punch_time[h]
        /\ total_count' = total_count + Len(detected_punches')
        /\ \A t \in PunchTypes :
              punch_counts'[t] = punch_counts[t] + CountOf(detected_punches', t)]_vars

\* C28 witness: the left hand punched a second time, later than its first punch,
\* in a frame in which the right hand's motion was rejected, and the right hand
\* keeps the time of the punch it threw before
C28_LeftPunchedAgainRightKept ==
    /\ EmittedCount(punch_log, "left") = 2
    /\ Emitted(detected_punches, "left")
    /\ ~Emitted(detected_punches, "right")
    /\ last_punch_time["left"] = now
    /\ Emitted(punch_log, "right")
    /\ last_punch_time["right"] < now
    /\ last_punch_time["right"] > 0

(***************************************************************************)
(* DataManager                                                             *)
(***************************************************************************)
\* what a saved session reads back as: its date, duration, total_punches and
\* punches_per_minute, and 0 (an empty combo map) for what it does not hold
ReadBack(session_data) ==
    LET has_types == "punch_types" \in DOMAIN session_data
        has_stats == "combo_stats" \in DOMAIN session_data
        count(t) == IF has_types /\ t \in DOMAIN session_data["punch_types"]
                    THEN session_data["punch_types"][t] ELSE 0
        stat(k, missing) == IF has_stats /\ k \in DOMAIN session_data["combo_stats"]
                            THEN session_data["combo_stats"][k] ELSE missing
    IN [date |-> session_data["date"],
        duration |-> session_data["duration"],
        total_punches |-> session_data["total_punches"],
        punches_per_minute |-> session_data["punches_per_minute"],
        punch_types |-> [t \in PunchTypes |-> count(t)],
        combo_stats |-> [successes |-> stat("successes", 0),
                         attempts |-> stat("attempts", 0),
                         detected_combos |-> stat("detected_combos", <<>>)]]

Returned(session_data) ==
    \E k \in 1..Len(historical_data) : historical_data[k] = ReadBack(session_data)

SmallerOf(a, b) == IF a < b THEN a ELSE b

\* the stored sessions other than the newest whose date is not earlier than
\* the date of the newest
NotEarlierThanNewest ==
    { j \in 1..(Len(saved_sessions) - 1) :
        saved_sessions[j]["date"] >= Last(saved_sessions)["date"] }

\* C25 as stated: get_historical_data(limit), limit >= 1, called after a save of
\* session data holding the four required fields, returns a record for that
\* session with the same date, duration, total_punches and punches_per_minute
\* and with 0 (an empty combo map) for the punch types and combo statistics the
\* data lacks; after n saves it returns min(n, limit) records
C25_SavedSessionReadBack ==
    (dm_pc = "read" /\ saved_sessions # <<>>) =>
        /\ Returned(Last(saved_sessions))
        /\ Len(historical_data) = SmallerOf(Len(saved_sessions), history_limit)

\* C25 amended: the record for the session saved last is returned whenever
\* fewer than limit of the other stored sessions carry its date or a later one;
\* after n saves min(n, limit) records are returned
C25_SavedSessionReadBackWithinLimit ==
    (dm_pc = "read" /\ saved_sessions # <<>>) =>
        /\ Cardinality(NotEarlierThanNewest) < history_limit =>
              Returned(Last(saved_sessions))
        /\ Len(historical_data) = SmallerOf(Len(saved_sessions), history_limit)

\* C25 witness: three sessions are stored, the newest being the session that
\* holds two punch types and no combo statistics; a read with limit 2 returned
\* two records, among them that session with 0 hooks, 0 combo successes and an
\* empty combo map
C25_NewestOfThreeReadBackWithZeros ==
    /\ dm_pc = "read"
    /\ Len(saved_sessions) = 3
    /\ history_limit = 2
    /\ Len(historical_data) = 2
    /\ DOMAIN Last(saved_sessions) =
          {"date", "duration", "total_punches", "punches_per_minute", "punch_types"}
    /\ \E k \in 1..2 :
          /\ historical_data[k] = ReadBack(Last(saved_sessions))
          /\ historical_data[k].total_punches = 5
          /\ historical_data[k].punch_types[HOOK] = 0
          /\ historical_data[k].combo_stats.successes = 0
          /\ historical_data[k].combo_stats.detected_combos = <<>>

\* C26: after a save_session_data whose write of the JSON backup file failed,
\* no exception has reached the caller, the failure was reported as a message,
\* no backup file of that session exists, and the session's row is stored
C26_FailedBackupLeavesNoFile ==
    (dm_pc = "saved" /\ backup_outcome \in {"open_fails", "write_fails"}) =>
        /\ dm_raised = "None"
        /\ dm_message = "Failed to write backup file"
        /\ Len(db_rows) \notin backup_files
        /\ db_rows # <<>>
        /\ RowToDict(Last(db_rows)) = ReadBack(Last(saved_sessions))

\* the punches a step returned, as entries of the punch event history
NewEntries ==
    [i \in 1..(Len(punch_log') - Len(punch_log)) |->
        LET event == punch_log'[Len(punch_log) + i]
        IN <<event.type, event.time, event.coords>>]

\* `after` is `before` followed by `added`, its oldest entries gone where the
\* capacity of the history was passed
AppendedWithEviction(before, added, after) ==
    LET all == before \o added
    IN /\ Len(after) <= Len(all)
       /\ after = SubSeq(all, Len(all) - Len(after) + 1, Len(all))
       /\ Len(after) = Len(all) \/ Len(after) = EventHistoryMaxLen

\* the step counted a combo success
CountsSuccess == combo_stats'.successes = combo_stats.successes + 1

CountedPunches(i) ==
    LET length == Len((CHOOSE c \in {predefined_combos[k] : k \in 1..Len(predefined_combos)} :
                          c.name = counted_combos[i].name).sequence)
    IN (counted_combos[i].punches - length + 1)..counted_combos[i].punches

C30_PausedFrameChangesNothing ==
    [][(IsFrameStep /\ is_paused) =>
        UNCHANGED <<total_count, punch_counts, position_history, timestamp_history,
                    last_punch_time, punch_event_history, combo_stats,
                    current_detected_combo, last_combo_detected_time,
                    counted_combos>>]_vars

\* C30 witness: the application is paused with punches counted, a combo
\* success counted and entries in the punch event history; the last samples
\* are three frames old and the last punch two frames old, so the two frames
\* since were processed paused, and a frame of normal processing would have
\* stored a sample or counted the punches again
C30_TwoPausedFramesAfterCombo ==
    /\ is_paused
    /\ app_pc = "key"
    /\ total_count > 0
    /\ combo_stats.successes = 1
    /\ punch_event_history # <<>>
    /\ now = last_punch_time["left"] + 1000000
    /\ now = Last(timestamp_history["left_wrist"]) + 1500000

(***************************************************************************)
(* Calibration stages                                                      *)
(***************************************************************************)
\* the step is a call of Calibrator.start_calibration
IsStartCalibrationStep ==
    /\ ~IsFrameStep
    /\ <<calibrator_is_calibrating, calibration_stage, step_start_time,
         punch_velocities>>' #
       <<calibrator_is_calibrating, calibration_stage, step_start_time,
         punch_velocities>>

\* C33: start_calibration leaves the stage at 0; a frame handed to
\* process_calibration_frame leaves the stage as it was or one higher, and one
\* higher only if the time since the stage began is at least the stage's
\* duration; the frame reports completion exactly when it takes the stage past
\* the last of the five steps; and a frame changes the collected wrist data
\* only if the stage it leaves is 1, 2 or 3.
C33_StageAdvancesOneStepAtATime ==
    /\ [][IsStartCalibrationStep => calibration_stage' = 0]_vars
    /\ [][IsFrameStep =>
            /\ \/ calibration_stage' = calibration_stage
               \/ /\ calibration_stage' = calibration_stage + 1
                  /\ now' - step_start_time >=
                        StepDurations[calibration_stage + 1] * Micro
            /\ calibration_complete' =
                  (calibration_stage = Len(CalibrationSteps) - 1
                   /\ calibration_stage' = Len(CalibrationSteps))
            /\ punch_velocities' # punch_velocities =>
                  calibration_stage' \in 1..3]_vars
    /\ [](calibration_stage \in 0..Len(CalibrationSteps))

\* C33 witness: a run has completed at stage 5 with wrist data collected, in
\* more frames than the five that advance the stage and more than the 38
\* seconds of the five steps
C33_RunCompletedThroughAllStages ==
    /\ calibration_complete
    /\ calibration_stage = Len(CalibrationSteps)
    /\ ~calibrator_is_calibrating
    /\ punch_velocities # <<>>
    /\ frames > Len(CalibrationSteps)
    /\ now - StartTime > Sum(StepDurations) * Micro

(***************************************************************************)
(* The hand of a cross                                                     *)
(***************************************************************************)
\* C35: for the left hand _classify_punch_type returns jab, hook or uppercut,
\* whether or not one of the four keypoints is missing; a result of cross is a
\* result for the right hand.
C35_LeftHandNeverCross ==
    cls_pc = "done" =>
        /\ cls_hand = "left" => cls_result \in {JAB, HOOK, UPPERCUT}
        /\ cls_result = CROSS => cls_hand = "right"

\* C35 witness: the left arm is extended with the wrist not above the elbow,
\* the arm the right hand is given cross for, and the result is jab
C35_ExtendedLeftArmIsJab ==
    /\ cls_pc = "done"
    /\ cls_hand = "left"
    /\ AllFourPresent
    /\ ArmExtended
    /\ ~WristAboveElbow
    /\ cls_result = JAB

(***************************************************************************)
(* Counting combos in the main loop                                        *)
(***************************************************************************)
\* the frame ran the normal processing and detect_combo returned the name of
\* the current combo no later than the display duration after it was counted
RepeatedInsideDuration ==
    /\ IsFrameStep
    /\ ~is_paused
    /\ ~is_calibrating
    /\ combo_result' # "None"
    /\ combo_result' = current_detected_combo
    /\ now' - last_combo_detected_time <= ComboDisplayDuration

LibraryNames == {predefined_combos[k].name : k \in 1..Len(predefined_combos)}

\* the sum of the counts a dict holds for `keys`
RECURSIVE DictSum(_, _)
DictSum(d, keys) ==
    IF keys = {} THEN 0
    ELSE LET k == CHOOSE key \in keys : TRUE
         IN d[k] + DictSum(d, keys \ {k})

\* the step is a call of start_session: the one run() makes before its loop,
\* or one that moves the session start to the present clock reading
IsStartSessionStep ==
    \/ app_pc = "start" /\ app_pc' = "frame"
    \/ app_pc = "key" /\ session_start_time' # session_start_time

\* C34: the combo success count is the sum of the per-name counts of
\* detected_combos, every name in detected_combos is the name of a pattern of
\* the library, and start_session leaves the success count at zero and
\* detected_combos empty.
C34_SuccessesSumOfDetectedCombos ==
    /\ [](/\ combo_stats.successes =
                DictSum(combo_stats.detected_combos,
                        DOMAIN combo_stats.detected_combos)
          /\ DOMAIN combo_stats.detected_combos \subseteq LibraryNames)
    /\ [][IsStartSessionStep =>
             /\ combo_stats'.successes = 0
             /\ DOMAIN combo_stats'.detected_combos = {}]_vars

\* C34 witness: a combo was counted, the session was restarted, and the new
\* session has counted one combo since: one success, one name with count 1
C34_OneSuccessAfterRestart ==
    /\ key_presses = 1
    /\ Len(counted_combos) = 2
    /\ counted_combos[1].session # counted_combos[2].session
    /\ combo_stats.successes = 1
    /\ DOMAIN combo_stats.detected_combos = {counted_combos[2].name}
    /\ combo_stats.detected_combos[counted_combos[2].name] = 1

(***************************************************************************)
(* Calibration mode in the main loop                                       *)
(***************************************************************************)
\* the frame ran detect_punches on wrists that were both in view: each wrist
\* was stored with the frame's clock reading
RanPunchDetection ==
    \A k \in WristKeys :
        /\ frame_wrists'[k] # None
        /\ position_history'[k] # <<>>
        /\ Last(position_history'[k]) = frame_wrists'[k]
        /\ Last(timestamp_history'[k]) = now'

\* C31: a frame processed in calibration mode (and not paused) leaves the punch
\* counters, the position histories, the punch event history and the combo
\* statistics as they were; calibration mode ends exactly in the frame in
\* which the calibrator reports completion, and that frame hands the
\* calibrator's data to the punch counter; calibration mode is entered only
\* by start_calibration, between frames; and every frame processed neither
\* paused nor in calibration mode runs the punch detection.
C31_CalibrationModeThenNormalDetection ==
    /\ [][(IsFrameStep /\ is_calibrating /\ ~is_paused) =>
            /\ UNCHANGED <<total_count, punch_counts, punch_log, position_history,
                           timestamp_history, last_punch_time, punch_event_history,
                           combo_stats, current_detected_combo, counted_combos>>
            /\ is_calibrating' = ~calibration_complete'
            /\ calibration_complete' => calibration_data' = GetCalibrationData'
            /\ ~calibration_complete' => calibration_data' = calibration_data]_vars
    /\ [][is_calibrating' # is_calibrating =>
            IF is_calibrating THEN IsFrameStep /\ calibration_complete'
            ELSE ~IsFrameStep /\ calibration_stage' = 0]_vars
    /\ [][(IsFrameStep /\ ~is_calibrating /\ ~is_paused) => RanPunchDetection]_vars

\* C31 witness: a calibration run of the main loop has completed and its
\* multiplier of 2.0 is the punch counter's; calibration mode is off; two
\* frames have been processed since, and the second counted a punch of each
\* hand, the first punches of the session
C31_PunchCountedAfterCalibration ==
    /\ calibration_complete
    /\ ~is_calibrating
    /\ Len(calibration_log) = 1
    /\ calibration_data = GetCalibrationData
    /\ calibration_data.velocity_multiplier = Tenths(20)
    /\ app_pc = "key"
    /\ Len(punch_log) = 2
    /\ total_count = 2
    /\ punch_log[1].time = now
    /\ now > step_start_time

====
